---- MODULE Spec2Model ----
(***************************************************************************)
(* Model of the pi plugin commands of politeiad                            *)
(* (politeiad/backendv2/tstorebe/plugins/pi/cmds.go): set billing status,  *)
(* billing status changes and summary, with the in-memory status cache and *)
(* the tstore blobs the commands read and write.                           *)
(***************************************************************************)
EXTENDS Integers, Sequences, FiniteSets, TLC

VARIABLES
    records,       \* backend records: token -> [State, Status, VoteMD]
    votes,         \* ticketvote summaries: token -> vote status
    tstore,        \* tstore blobs: token -> sequence of blob entries, in append order
    now,           \* the server's unix clock
    cacheData,     \* p.cache.data: hex token -> cache entry, or Nil
    cacheEntries,  \* p.cache.entries: hex tokens in insertion order
    reply,         \* the last plugin command: its request and what it returned
    arg,           \* the inputs of a pure function under check
    res            \* the result of a pure function under check

vars == <<records, votes, tstore, now, cacheData, cacheEntries, reply, arg, res>>

Nil == "nil"

(***************************************************************************)
(* Bounds of the model.                                                    *)
(***************************************************************************)
\* The clock runs from 1 to MaxTime.
MaxTime == 2

\* The longest billing status history given to a pure function.
MaxHist == 2
MaxWrites == 4

(***************************************************************************)
(* Enumerations.                                                           *)
(***************************************************************************)
StateUnvetted == "StateUnvetted"
StateVetted == "StateVetted"
States == {StateUnvetted, StateVetted}

StatusUnreviewed == "StatusUnreviewed"
StatusPublic == "StatusPublic"
StatusCensored == "StatusCensored"
StatusArchived == "StatusArchived"
Statuses == {StatusUnreviewed, StatusPublic, StatusCensored, StatusArchived}

VoteStatusInvalid == "VoteStatusInvalid"
VoteStatusUnauthorized == "VoteStatusUnauthorized"
VoteStatusAuthorized == "VoteStatusAuthorized"
VoteStatusStarted == "VoteStatusStarted"
VoteStatusRejected == "VoteStatusRejected"
VoteStatusApproved == "VoteStatusApproved"
VoteStatuses == {VoteStatusInvalid, VoteStatusUnauthorized, VoteStatusAuthorized,
                 VoteStatusStarted, VoteStatusRejected, VoteStatusApproved}

BillingStatusInvalid == "BillingStatusInvalid"
BillingStatusActive == "BillingStatusActive"
BillingStatusClosed == "BillingStatusClosed"
BillingStatusCompleted == "BillingStatusCompleted"
BillingStatuses == {BillingStatusInvalid, BillingStatusActive, BillingStatusClosed,
                    BillingStatusCompleted}

PropStatusInvalid == "PropStatusInvalid"
PropStatusUnvetted == "PropStatusUnvetted"
PropStatusUnvettedAbandoned == "PropStatusUnvettedAbandoned"
PropStatusUnvettedCensored == "PropStatusUnvettedCensored"
PropStatusUnderReview == "PropStatusUnderReview"
PropStatusAbandoned == "PropStatusAbandoned"
PropStatusCensored == "PropStatusCensored"
PropStatusVoteAuthorized == "PropStatusVoteAuthorized"
PropStatusVoteStarted == "PropStatusVoteStarted"
PropStatusApproved == "PropStatusApproved"
PropStatusRejected == "PropStatusRejected"
PropStatusActive == "PropStatusActive"
PropStatusCompleted == "PropStatusCompleted"
PropStatusClosed == "PropStatusClosed"

(***************************************************************************)
(* Errors.  A plugin error carries its error code and its context; an      *)
(* error of a backend call carries the name of the call.                   *)
(***************************************************************************)
NoErr == [code |-> "OK", ctx |-> ""]

PluginError(code, ctx) == [code |-> code, ctx |-> ctx]

BackendError(call) == [code |-> "BackendError", ctx |-> call]

InternalError(ctx) == [code |-> "InternalError", ctx |-> ctx]

ErrorCodeTokenInvalid == "ErrorCodeTokenInvalid"
ErrorCodePublicKeyInvalid == "ErrorCodePublicKeyInvalid"
ErrorCodeSignatureInvalid == "ErrorCodeSignatureInvalid"
ErrorCodeBillingStatusChangeNotAllowed == "ErrorCodeBillingStatusChangeNotAllowed"
ErrorCodeBillingStatusInvalid == "ErrorCodeBillingStatusInvalid"

(***************************************************************************)
(* Tokens.  A token is a byte string, here a number; its canonical form is *)
(* the hex string.                                                         *)
(***************************************************************************)
AllTokens == {1, 2, 3}

HexEncodeToString(token) ==
    CASE token = 1 -> "01"
      [] token = 2 -> "02"
      [] token = 3 -> "03"

HexTokens == {HexEncodeToString(t) : t \in AllTokens}

\* A string that is no token.
NotAToken == "zz"

tokenDecode(s) ==
    IF s \in HexTokens
    THEN [tok |-> CHOOSE t \in AllTokens : HexEncodeToString(t) = s, err |-> FALSE]
    ELSE [tok |-> Nil, err |-> TRUE]

tokenMatches(cmdToken, payloadToken) ==
    LET pt == tokenDecode(payloadToken) IN
    IF pt.err
    THEN PluginError(ErrorCodeTokenInvalid, "token regexp")
    ELSE IF pt.tok # cmdToken
         THEN PluginError(ErrorCodeTokenInvalid, "payload token does not match command token")
         ELSE NoErr

(***************************************************************************)
(* Signatures.  A signature is the pair of its signer and the message      *)
(* signed; it verifies against a well-formed public key when the key is    *)
(* the signer's and the message is the one signed.                         *)
(***************************************************************************)
ServerKey == "server"
UserKey == "pk1"
BadKey == "notakey"
PublicKeys == {UserKey, BadKey}

Sign(key, msg) == [signer |-> key, msg |-> msg]

\* msg := sbs.Token + strconv.FormatUint(uint64(sbs.Status), 10) + sbs.Reason
SignedMessage(token, status, reason) == <<token, status, reason>>

\* The signature is the hex string of the signature bytes.
VerifySignature(signature, publicKey, msg) ==
    IF publicKey = BadKey
    THEN "ErrorStatusPublicKeyInvalid"
    ELSE IF signature[1] # "hex"
    THEN "ErrorStatusSignatureInvalid"
    ELSE IF signature[2].signer = publicKey /\ signature[2].msg = msg
         THEN "OK"
         ELSE "ErrorStatusSignatureInvalid"

convertSignatureError(e) ==
    IF e = "ErrorStatusPublicKeyInvalid"
    THEN PluginError(ErrorCodePublicKeyInvalid, "public key")
    ELSE PluginError(ErrorCodeSignatureInvalid, "signature")

SignMessage(msg) == Sign(ServerKey, msg)

(***************************************************************************)
(* Vote metadata.  NoVoteMD is a record without a vote metadata file       *)
(* (voteMetadataDecode returns nil for it).                                *)
(***************************************************************************)
NoVoteMD == [nil |-> TRUE]

VoteMD(linkBy, linkTo) == [LinkBy |-> linkBy, LinkTo |-> linkTo]

\* No vote metadata, a plain proposal, an RFP base proposal, an RFP submission.
VoteMDs == {NoVoteMD, VoteMD(0, ""), VoteMD(1, ""), VoteMD(0, "03")}

isRFP(vm) == vm # NoVoteMD /\ vm.LinkBy # 0

(***************************************************************************)
(* The allowed billing status transitions.                                 *)
(***************************************************************************)
\* MutTableNoReopen: a completed proposal cannot be set back to active.
MutTableNoReopen(currentStatus) ==
    CASE currentStatus = BillingStatusActive ->
             {BillingStatusClosed, BillingStatusCompleted}
      [] currentStatus = BillingStatusClosed ->
             {BillingStatusActive, BillingStatusCompleted}
      [] currentStatus = BillingStatusCompleted ->
             {BillingStatusClosed}
      [] OTHER -> {}

\* MutTableAllowsSelf: a status can be set to itself.
MutTableAllowsSelf(currentStatus) ==
    CASE currentStatus = BillingStatusActive ->
             {BillingStatusActive, BillingStatusClosed, BillingStatusCompleted}
      [] currentStatus = BillingStatusClosed ->
             {BillingStatusActive, BillingStatusClosed, BillingStatusCompleted}
      [] currentStatus = BillingStatusCompleted ->
             {BillingStatusActive, BillingStatusClosed, BillingStatusCompleted}
      [] OTHER -> {}

\* MutTableActiveStays: an active proposal can be set to active.
MutTableActiveStays(currentStatus) ==
    CASE currentStatus = BillingStatusActive ->
             {BillingStatusActive, BillingStatusClosed, BillingStatusCompleted}
      [] currentStatus = BillingStatusClosed ->
             {BillingStatusActive, BillingStatusCompleted}
      [] currentStatus = BillingStatusCompleted ->
             {BillingStatusActive, BillingStatusClosed}
      [] OTHER -> {}

billingStatusChanges(currentStatus) ==
    CASE currentStatus = BillingStatusActive ->
             {BillingStatusClosed, BillingStatusCompleted}
      [] currentStatus = BillingStatusClosed ->
             {BillingStatusActive, BillingStatusCompleted}
      [] currentStatus = BillingStatusCompleted ->
             {BillingStatusActive, BillingStatusClosed}
      [] OTHER -> {}

(***************************************************************************)
(* The blob codec.  The encodings are kept apart by their tags: JSON,      *)
(* base64 and hex wrap what they encode, Digest is the hash of its         *)
(* argument.                                                               *)
(***************************************************************************)
dataDescriptorBillingStatus == "pi-billingstatus-v1"

\* A string that is no valid UTF-8, and what json.Marshal writes for it.
InvalidUTF8 == "<ff>"
ReplacementChar == "<fffd>"

\* json.Marshal coerces the strings to valid UTF-8; of the strings of the
\* model only a reason can be invalid.
JsonMarshal(v) ==
    <<"json", IF "Reason" \in DOMAIN v /\ v.Reason = InvalidUTF8
              THEN [v EXCEPT !.Reason = ReplacementChar]
              ELSE v>>
JsonValid(b) == b # <<>> /\ b[1] = "json"
JsonUnmarshal(b) == b[2]

Base64Encode(b) == <<"b64", b>>
Base64Valid(s) == s # <<>> /\ s[1] = "b64"
Base64Decode(s) == s[2]

Digest(b) == <<"sha256", b>>

HexEncode(d) == <<"hex", d>>
HexValid(s) == s # <<>> /\ s[1] = "hex"
HexDecode(s) == s[2]

DataDescriptor(descriptor) == [Type |-> "struct", Descriptor |-> descriptor]

NewBlobEntry(hint, data) ==
    [Digest |-> HexEncode(Digest(data)),
     DataHint |-> Base64Encode(hint),
     Data |-> Base64Encode(data)]

billingStatusEncode(bsc) ==
    NewBlobEntry(JsonMarshal(DataDescriptor(dataDescriptorBillingStatus)),
                 JsonMarshal(bsc))

DecodeError(ctx) == [code |-> "DecodeError", ctx |-> ctx]

\* MutDecodeDigestFirst: the digest is checked before the descriptor.
MutDecodeDigestFirst(be) ==
    IF ~Base64Valid(be.DataHint)
    THEN [bsc |-> Nil, err |-> DecodeError("decode DataHint")]
    ELSE IF ~JsonValid(Base64Decode(be.DataHint))
    THEN [bsc |-> Nil, err |-> DecodeError("unmarshal DataHint")]
    ELSE IF ~Base64Valid(be.Data)
    THEN [bsc |-> Nil, err |-> DecodeError("decode Data")]
    ELSE IF ~HexValid(be.Digest)
    THEN [bsc |-> Nil, err |-> DecodeError("decode digest")]
    ELSE IF Digest(Base64Decode(be.Data)) # HexDecode(be.Digest)
    THEN [bsc |-> Nil, err |-> DecodeError("data is not coherent")]
    ELSE IF JsonUnmarshal(Base64Decode(be.DataHint)).Descriptor # dataDescriptorBillingStatus
    THEN [bsc |-> Nil, err |-> DecodeError("unexpected data descriptor")]
    ELSE IF ~JsonValid(Base64Decode(be.Data))
    THEN [bsc |-> Nil, err |-> DecodeError("unmarshal AuthDetails")]
    ELSE [bsc |-> JsonUnmarshal(Base64Decode(be.Data)), err |-> NoErr]

billingStatusDecode(be) ==
    IF ~Base64Valid(be.DataHint)
    THEN [bsc |-> Nil, err |-> DecodeError("decode DataHint")]
    ELSE IF ~JsonValid(Base64Decode(be.DataHint))
    THEN [bsc |-> Nil, err |-> DecodeError("unmarshal DataHint")]
    ELSE IF JsonUnmarshal(Base64Decode(be.DataHint)).Descriptor # dataDescriptorBillingStatus
    THEN [bsc |-> Nil, err |-> DecodeError("unexpected data descriptor")]
    ELSE IF ~Base64Valid(be.Data)
    THEN [bsc |-> Nil, err |-> DecodeError("decode Data")]
    ELSE IF ~HexValid(be.Digest)
    THEN [bsc |-> Nil, err |-> DecodeError("decode digest")]
    ELSE IF Digest(Base64Decode(be.Data)) # HexDecode(be.Digest)
    THEN [bsc |-> Nil, err |-> DecodeError("data is not coherent")]
    ELSE IF ~JsonValid(Base64Decode(be.Data))
    THEN [bsc |-> Nil, err |-> DecodeError("unmarshal AuthDetails")]
    ELSE [bsc |-> JsonUnmarshal(Base64Decode(be.Data)), err |-> NoErr]

(***************************************************************************)
(* The backend calls.  fail names the backend call that fails during the   *)
(* command, "none" when none does.                                         *)
(***************************************************************************)
Failures == {"none", "voteSummary", "record", "blobs", "save"}

\* p.tstore.BlobsByDataDesc: the blobs of the token, oldest first.
BlobsByDataDesc(token) == tstore[token]

\* p.tstore.BlobSave: the blob is appended to the blobs of the token.
BlobSave(token, be) == [tstore EXCEPT ![token] = Append(@, be)]

\* MutSaveDropsOldest: saving a blob overwrites the oldest blob of the token.
MutSaveDropsOldest(token, bsc) ==
    [tstore EXCEPT ![token] =
        IF @ = <<>> THEN <<billingStatusEncode(bsc)>>
        ELSE Append(Tail(@), billingStatusEncode(bsc))]

billingStatusSave(token, bsc) == BlobSave(token, billingStatusEncode(bsc))

\* MutInsertBeforeEqual: x goes before the entries of its own timestamp.
RECURSIVE MutInsertBeforeEqual(_, _)
MutInsertBeforeEqual(sorted, x) ==
    IF sorted = <<>>
    THEN <<x>>
    ELSE IF x.Timestamp <= Head(sorted).Timestamp
         THEN <<x>> \o sorted
         ELSE <<Head(sorted)>> \o MutInsertBeforeEqual(Tail(sorted), x)

\* sort.SliceStable by Timestamp: x goes behind every entry that is not newer.
RECURSIVE InsertByTimestamp(_, _)
InsertByTimestamp(sorted, x) ==
    IF sorted = <<>>
    THEN <<x>>
    ELSE IF x.Timestamp < Head(sorted).Timestamp
         THEN <<x>> \o sorted
         ELSE <<Head(sorted)>> \o InsertByTimestamp(Tail(sorted), x)

RECURSIVE SliceStable(_)
SliceStable(s) ==
    IF s = <<>>
    THEN <<>>
    ELSE InsertByTimestamp(SliceStable(SubSeq(s, 1, Len(s) - 1)), s[Len(s)])

\* MutDecodeSkipsCorrupt: a blob that fails to decode is left out.
RECURSIVE MutDecodeSkipsCorrupt(_)
MutDecodeSkipsCorrupt(blobs) ==
    IF blobs = <<>>
    THEN [bscs |-> <<>>, err |-> NoErr]
    ELSE LET a == billingStatusDecode(Head(blobs))
             rest == MutDecodeSkipsCorrupt(Tail(blobs))
         IN IF a.err # NoErr
            THEN rest
            ELSE [bscs |-> <<a.bsc>> \o rest.bscs, err |-> NoErr]

\* The decoded blobs, up to and without the first one that fails to decode.
RECURSIVE DecodeAll(_)
DecodeAll(blobs) ==
    IF blobs = <<>>
    THEN [bscs |-> <<>>, err |-> NoErr]
    ELSE LET a == billingStatusDecode(Head(blobs)) IN
         IF a.err # NoErr
         THEN [bscs |-> <<>>, err |-> a.err]
         ELSE LET rest == DecodeAll(Tail(blobs)) IN
              IF rest.err # NoErr
              THEN rest
              ELSE [bscs |-> <<a.bsc>> \o rest.bscs, err |-> NoErr]

\* p.billingStatusChanges
p_billingStatusChanges(token, fail) ==
    IF fail = "blobs"
    THEN [bscs |-> Nil, err |-> BackendError("blobs")]
    ELSE LET d == DecodeAll(BlobsByDataDesc(token)) IN
         IF d.err # NoErr
         THEN [bscs |-> Nil, err |-> d.err]
         ELSE [bscs |-> SliceStable(d.bscs), err |-> NoErr]

\* p.voteSummary
voteSummary(token, fail) ==
    IF fail = "voteSummary"
    THEN [Status |-> Nil, err |-> BackendError("voteSummary")]
    ELSE [Status |-> votes[token], err |-> NoErr]

\* p.record together with voteMetadataDecode of its files
record(token, fail) ==
    IF fail = "record" \/ token \notin DOMAIN records
    THEN [r |-> Nil, err |-> BackendError("record")]
    ELSE [r |-> records[token], err |-> NoErr]

(***************************************************************************)
(* The status derivation.                                                  *)
(***************************************************************************)
\* MutBillingStatusIgnoresHistory: an approved proposal is always active.
MutBillingStatusIgnoresHistory(vs, bscs) ==
    IF vs # VoteStatusApproved
    THEN BillingStatusInvalid
    ELSE BillingStatusActive

\* MutBillingStatusOldest: the oldest change decides the billing status.
MutBillingStatusOldest(vs, bscs) ==
    IF vs # VoteStatusApproved
    THEN BillingStatusInvalid
    ELSE IF Len(bscs) = 0 THEN BillingStatusActive ELSE bscs[1].Status

proposalBillingStatus(vs, bscs) ==
    IF vs # VoteStatusApproved
    THEN BillingStatusInvalid
    ELSE IF Len(bscs) = 0
         THEN BillingStatusActive
         ELSE bscs[Len(bscs)].Status

\* MutApprovedBillingFirst: the billing status is looked at before the RFP
\* test, so an RFP whose history ends with an unknown status is an error.
MutApprovedBillingFirst(voteMD, bscs) ==
    LET bs == proposalBillingStatus(VoteStatusApproved, bscs) IN
    IF bs \notin {BillingStatusClosed, BillingStatusCompleted, BillingStatusActive}
    THEN [s |-> PropStatusInvalid,
          err |-> InternalError("couldn't determine proposal status of an approved proposal")]
    ELSE IF isRFP(voteMD)
    THEN [s |-> PropStatusApproved, err |-> NoErr]
    ELSE CASE bs = BillingStatusClosed -> [s |-> PropStatusClosed, err |-> NoErr]
           [] bs = BillingStatusCompleted -> [s |-> PropStatusCompleted, err |-> NoErr]
           [] OTHER -> [s |-> PropStatusActive, err |-> NoErr]

proposalStatusApproved(voteMD, bscs) ==
    IF isRFP(voteMD)
    THEN [s |-> PropStatusApproved, err |-> NoErr]
    ELSE LET bs == proposalBillingStatus(VoteStatusApproved, bscs) IN
         CASE bs = BillingStatusClosed -> [s |-> PropStatusClosed, err |-> NoErr]
           [] bs = BillingStatusCompleted -> [s |-> PropStatusCompleted, err |-> NoErr]
           [] bs = BillingStatusActive -> [s |-> PropStatusActive, err |-> NoErr]
           [] OTHER -> [s |-> PropStatusInvalid,
                        err |-> InternalError("couldn't determine proposal status of an approved proposal")]

\* MutUnknownIsUnvetted: a combination outside the table counts as unvetted.
MutUnknownIsUnvetted(state, status, voteStatus, voteMD, bscs) ==
    LET unknown == [s |-> PropStatusUnvetted, err |-> NoErr]
    IN
    CASE state = StateUnvetted ->
           (CASE status = StatusUnreviewed -> [s |-> PropStatusUnvetted, err |-> NoErr]
              [] status = StatusArchived -> [s |-> PropStatusUnvettedAbandoned, err |-> NoErr]
              [] status = StatusCensored -> [s |-> PropStatusUnvettedCensored, err |-> NoErr]
              [] OTHER -> unknown)
      [] state = StateVetted ->
           (CASE status = StatusArchived -> [s |-> PropStatusAbandoned, err |-> NoErr]
              [] status = StatusCensored -> [s |-> PropStatusCensored, err |-> NoErr]
              [] status = StatusPublic ->
                   (CASE voteStatus = VoteStatusUnauthorized ->
                            [s |-> PropStatusUnderReview, err |-> NoErr]
                      [] voteStatus = VoteStatusAuthorized ->
                            [s |-> PropStatusVoteAuthorized, err |-> NoErr]
                      [] voteStatus = VoteStatusStarted ->
                            [s |-> PropStatusVoteStarted, err |-> NoErr]
                      [] voteStatus = VoteStatusRejected ->
                            [s |-> PropStatusRejected, err |-> NoErr]
                      [] voteStatus = VoteStatusApproved ->
                            proposalStatusApproved(voteMD, bscs)
                      [] OTHER -> unknown)
              [] OTHER -> unknown)
      [] OTHER -> unknown

\* MutRejectedFallsToBilling: a rejected proposal is derived like an approved one.
MutRejectedFallsToBilling(state, status, voteStatus, voteMD, bscs) ==
    LET unknown == [s |-> PropStatusInvalid,
                    err |-> InternalError("couldn't determine proposal status")]
    IN
    CASE state = StateUnvetted ->
           (CASE status = StatusUnreviewed -> [s |-> PropStatusUnvetted, err |-> NoErr]
              [] status = StatusArchived -> [s |-> PropStatusUnvettedAbandoned, err |-> NoErr]
              [] status = StatusCensored -> [s |-> PropStatusUnvettedCensored, err |-> NoErr]
              [] OTHER -> unknown)
      [] state = StateVetted ->
           (CASE status = StatusArchived -> [s |-> PropStatusAbandoned, err |-> NoErr]
              [] status = StatusCensored -> [s |-> PropStatusCensored, err |-> NoErr]
              [] status = StatusPublic ->
                   (CASE voteStatus = VoteStatusUnauthorized ->
                            [s |-> PropStatusUnderReview, err |-> NoErr]
                      [] voteStatus = VoteStatusAuthorized ->
                            [s |-> PropStatusVoteAuthorized, err |-> NoErr]
                      [] voteStatus = VoteStatusStarted ->
                            [s |-> PropStatusVoteStarted, err |-> NoErr]
                      [] voteStatus = VoteStatusRejected ->
                            proposalStatusApproved(voteMD, bscs)
                      [] voteStatus = VoteStatusApproved ->
                            proposalStatusApproved(voteMD, bscs)
                      [] OTHER -> unknown)
              [] OTHER -> unknown)
      [] OTHER -> unknown

proposalStatus(state, status, voteStatus, voteMD, bscs) ==
    LET unknown == [s |-> PropStatusInvalid,
                    err |-> InternalError("couldn't determine proposal status")]
    IN
    CASE state = StateUnvetted ->
           (CASE status = StatusUnreviewed -> [s |-> PropStatusUnvetted, err |-> NoErr]
              [] status = StatusArchived -> [s |-> PropStatusUnvettedAbandoned, err |-> NoErr]
              [] status = StatusCensored -> [s |-> PropStatusUnvettedCensored, err |-> NoErr]
              [] OTHER -> unknown)
      [] state = StateVetted ->
           (CASE status = StatusArchived -> [s |-> PropStatusAbandoned, err |-> NoErr]
              [] status = StatusCensored -> [s |-> PropStatusCensored, err |-> NoErr]
              [] status = StatusPublic ->
                   (CASE voteStatus = VoteStatusUnauthorized ->
                            [s |-> PropStatusUnderReview, err |-> NoErr]
                      [] voteStatus = VoteStatusAuthorized ->
                            [s |-> PropStatusVoteAuthorized, err |-> NoErr]
                      [] voteStatus = VoteStatusStarted ->
                            [s |-> PropStatusVoteStarted, err |-> NoErr]
                      [] voteStatus = VoteStatusRejected ->
                            [s |-> PropStatusRejected, err |-> NoErr]
                      [] voteStatus = VoteStatusApproved ->
                            proposalStatusApproved(voteMD, bscs)
                      [] OTHER -> unknown)
              [] OTHER -> unknown)
      [] OTHER -> unknown

(***************************************************************************)
(* The in-memory cache.  An entry holds a proposal status, a vote status,  *)
(* or both; a field that is not set is Nil.                                *)
(***************************************************************************)
piCacheLimit == 2

NoData == [nil |-> TRUE]

CacheDataOf(ps, vs) == [proposalStatus |-> ps, voteStatus |-> vs]

cacheDataGet(token) == cacheData[token]

\* MutVoteSetEvictsLate: the oldest entry is evicted only when the cache
\* holds more than the limit.
MutVoteSetEvictsLate(token, status) ==
    IF cacheData[token] # NoData
    THEN [data |-> [cacheData EXCEPT ![token].voteStatus = status],
          entries |-> cacheEntries]
    ELSE LET full == Len(cacheEntries) > piCacheLimit
             data1 == IF full
                      THEN [cacheData EXCEPT ![Head(cacheEntries)] = NoData]
                      ELSE cacheData
             entries1 == IF full THEN Tail(cacheEntries) ELSE cacheEntries
         IN [data |-> [data1 EXCEPT ![token] = CacheDataOf(Nil, status)],
             entries |-> Append(entries1, token)]

\* MutVoteSetRefreshes: overwriting the vote status of an entry makes the
\* entry the newest one.
MutVoteSetRefreshes(token, status) ==
    IF cacheData[token] # NoData
    THEN LET Other(t) == t # token IN
         [data |-> [cacheData EXCEPT ![token].voteStatus = status],
          entries |-> Append(SelectSeq(cacheEntries, Other), token)]
    ELSE LET full == Len(cacheEntries) = piCacheLimit
             data1 == IF full
                      THEN [cacheData EXCEPT ![Head(cacheEntries)] = NoData]
                      ELSE cacheData
             entries1 == IF full THEN Tail(cacheEntries) ELSE cacheEntries
         IN [data |-> [data1 EXCEPT ![token] = CacheDataOf(Nil, status)],
             entries |-> Append(entries1, token)]

cacheVoteStatusSet(token, status) ==
    IF cacheData[token] # NoData
    THEN [data |-> [cacheData EXCEPT ![token].voteStatus = status],
          entries |-> cacheEntries]
    ELSE LET full == Len(cacheEntries) = piCacheLimit
             data1 == IF full
                      THEN [cacheData EXCEPT ![Head(cacheEntries)] = NoData]
                      ELSE cacheData
             entries1 == IF full THEN Tail(cacheEntries) ELSE cacheEntries
         IN [data |-> [data1 EXCEPT ![token] = CacheDataOf(Nil, status)],
             entries |-> Append(entries1, token)]

\* MutProposalSetRefreshes: overwriting an entry makes it the newest one.
MutProposalSetRefreshes(token, status) ==
    IF cacheData[token] # NoData
    THEN LET Other(t) == t # token IN
         [data |-> [cacheData EXCEPT ![token].proposalStatus = status],
          entries |-> Append(SelectSeq(cacheEntries, Other), token)]
    ELSE LET full == Len(cacheEntries) = piCacheLimit
             data1 == IF full
                      THEN [cacheData EXCEPT ![Head(cacheEntries)] = NoData]
                      ELSE cacheData
             entries1 == IF full THEN Tail(cacheEntries) ELSE cacheEntries
         IN [data |-> [data1 EXCEPT ![token] = CacheDataOf(status, Nil)],
             entries |-> Append(entries1, token)]

\* MutProposalSetEvictsEarly: the oldest entry is evicted one entry before
\* the cache is full.
MutProposalSetEvictsEarly(token, status) ==
    IF cacheData[token] # NoData
    THEN [data |-> [cacheData EXCEPT ![token].proposalStatus = status],
          entries |-> cacheEntries]
    ELSE LET full == Len(cacheEntries) >= piCacheLimit - 1
             data1 == IF full
                      THEN [cacheData EXCEPT ![Head(cacheEntries)] = NoData]
                      ELSE cacheData
             entries1 == IF full THEN Tail(cacheEntries) ELSE cacheEntries
         IN [data |-> [data1 EXCEPT ![token] = CacheDataOf(status, Nil)],
             entries |-> Append(entries1, token)]

\* MutProposalSetAlwaysInserts: the token is not looked up first; every call
\* takes the path of a token that is not cached.
MutProposalSetAlwaysInserts(token, status) ==
    LET full == Len(cacheEntries) = piCacheLimit
        data1 == IF full
                 THEN [cacheData EXCEPT ![Head(cacheEntries)] = NoData]
                 ELSE cacheData
        entries1 == IF full THEN Tail(cacheEntries) ELSE cacheEntries
    IN [data |-> [data1 EXCEPT ![token] = CacheDataOf(status, Nil)],
        entries |-> Append(entries1, token)]

cacheProposalStatusSet(token, status) ==
    IF cacheData[token] # NoData
    THEN [data |-> [cacheData EXCEPT ![token].proposalStatus = status],
          entries |-> cacheEntries]
    ELSE LET full == Len(cacheEntries) = piCacheLimit
             data1 == IF full
                      THEN [cacheData EXCEPT ![Head(cacheEntries)] = NoData]
                      ELSE cacheData
             entries1 == IF full THEN Tail(cacheEntries) ELSE cacheEntries
         IN [data |-> [data1 EXCEPT ![token] = CacheDataOf(status, Nil)],
             entries |-> Append(entries1, token)]

(***************************************************************************)
(* cmdSetBillingStatus.  The result is the error and, when there is none,  *)
(* the billing status change that is saved and the reply.                  *)
(***************************************************************************)
billingStatusChangesMax == 2

\* A payload that is no JSON of a SetBillingStatus.
MalformedPayload == [malformed |-> TRUE]

SetBillingStatus(token, status, reason, publicKey, signature) ==
    [Token |-> token, Status |-> status, Reason |-> reason,
     PublicKey |-> publicKey, Signature |-> signature]

\* MutChangeDropsStatus: the change that is saved does not take the status
\* of the request and keeps the zero value of the field.
MutChangeDropsStatus(sbs, timestamp, receipt) ==
    [Token |-> sbs.Token, Status |-> BillingStatusInvalid, Reason |-> sbs.Reason,
     PublicKey |-> sbs.PublicKey, Signature |-> sbs.Signature,
     Timestamp |-> timestamp, Receipt |-> receipt]

BillingStatusChange(sbs, timestamp, receipt) ==
    [Token |-> sbs.Token, Status |-> sbs.Status, Reason |-> sbs.Reason,
     PublicKey |-> sbs.PublicKey, Signature |-> sbs.Signature,
     Timestamp |-> timestamp, Receipt |-> receipt]

Failed(err) == [err |-> err, bsc |-> Nil]

\* MutNoReasonCheck: a closed status needs no reason.
MutNoReasonCheck(token, sbs) ==
    IF sbs = MalformedPayload
    THEN [code |-> "JSONError", ctx |-> "unmarshal SetBillingStatus"]
    ELSE IF tokenMatches(token, sbs.Token) # NoErr
    THEN tokenMatches(token, sbs.Token)
    ELSE IF sbs.Status \notin {BillingStatusActive, BillingStatusClosed,
                                BillingStatusCompleted}
    THEN PluginError(ErrorCodeBillingStatusInvalid, "invalid billing status")
    ELSE IF VerifySignature(sbs.Signature, sbs.PublicKey,
                            SignedMessage(sbs.Token, sbs.Status, sbs.Reason)) # "OK"
    THEN convertSignatureError(
             VerifySignature(sbs.Signature, sbs.PublicKey,
                             SignedMessage(sbs.Token, sbs.Status, sbs.Reason)))
    ELSE NoErr

\* MutReasonBeforeSignature: the reason of a closed status is checked before
\* the signature.
MutReasonBeforeSignature(token, sbs) ==
    IF sbs = MalformedPayload
    THEN [code |-> "JSONError", ctx |-> "unmarshal SetBillingStatus"]
    ELSE IF tokenMatches(token, sbs.Token) # NoErr
    THEN tokenMatches(token, sbs.Token)
    ELSE IF sbs.Status \notin {BillingStatusActive, BillingStatusClosed,
                                BillingStatusCompleted}
    THEN PluginError(ErrorCodeBillingStatusInvalid, "invalid billing status")
    ELSE IF sbs.Status = BillingStatusClosed /\ sbs.Reason = ""
    THEN PluginError(ErrorCodeBillingStatusChangeNotAllowed,
                     "must provide a reason when setting billing status to closed")
    ELSE IF VerifySignature(sbs.Signature, sbs.PublicKey,
                            SignedMessage(sbs.Token, sbs.Status, sbs.Reason)) # "OK"
    THEN convertSignatureError(
             VerifySignature(sbs.Signature, sbs.PublicKey,
                             SignedMessage(sbs.Token, sbs.Status, sbs.Reason)))
    ELSE NoErr

\* The checks of the payload, which need no backend call.
verifyPayload(token, sbs) ==
    IF sbs = MalformedPayload
    THEN [code |-> "JSONError", ctx |-> "unmarshal SetBillingStatus"]
    ELSE IF tokenMatches(token, sbs.Token) # NoErr
    THEN tokenMatches(token, sbs.Token)
    ELSE IF sbs.Status \notin {BillingStatusActive, BillingStatusClosed,
                                BillingStatusCompleted}
    THEN PluginError(ErrorCodeBillingStatusInvalid, "invalid billing status")
    ELSE IF VerifySignature(sbs.Signature, sbs.PublicKey,
                            SignedMessage(sbs.Token, sbs.Status, sbs.Reason)) # "OK"
    THEN convertSignatureError(
             VerifySignature(sbs.Signature, sbs.PublicKey,
                             SignedMessage(sbs.Token, sbs.Status, sbs.Reason)))
    ELSE IF sbs.Status = BillingStatusClosed /\ sbs.Reason = ""
    THEN PluginError(ErrorCodeBillingStatusChangeNotAllowed,
                     "must provide a reason when setting billing status to closed")
    ELSE NoErr

\* MutCapOffByOne: the cap lets one change too many through.
MutCapOffByOne(token, sbs, fail) ==
    LET vsr == voteSummary(token, fail) IN
    IF vsr.err # NoErr
    THEN vsr.err
    ELSE IF vsr.Status # VoteStatusApproved
    THEN PluginError(ErrorCodeBillingStatusChangeNotAllowed,
                     "setting billing status is allowed only if proposal vote was approved")
    ELSE LET r == record(token, fail) IN
    IF r.err # NoErr
    THEN r.err
    ELSE IF isRFP(r.r.VoteMD)
    THEN PluginError(ErrorCodeBillingStatusChangeNotAllowed,
                     "rfp proposals do not have a billing status")
    ELSE LET b == p_billingStatusChanges(token, fail) IN
    IF b.err # NoErr
    THEN b.err
    ELSE IF Len(b.bscs) > billingStatusChangesMax
    THEN PluginError(ErrorCodeBillingStatusChangeNotAllowed,
                     "number of billing status changes exceeds the maximum")
    ELSE IF sbs.Status \notin billingStatusChanges(proposalBillingStatus(vsr.Status, b.bscs))
    THEN PluginError(ErrorCodeBillingStatusChangeNotAllowed,
                     "invalid billing status transition")
    ELSE NoErr

\* MutVoteNotChecked: a vote that has ended, approved or rejected, is enough.
MutVoteNotChecked(token, sbs, fail) ==
    LET vsr == voteSummary(token, fail) IN
    IF vsr.err # NoErr
    THEN vsr.err
    ELSE IF vsr.Status \notin {VoteStatusApproved, VoteStatusRejected}
    THEN PluginError(ErrorCodeBillingStatusChangeNotAllowed,
                     "setting billing status is allowed only if proposal vote was approved")
    ELSE LET r == record(token, fail) IN
    IF r.err # NoErr
    THEN r.err
    ELSE IF isRFP(r.r.VoteMD)
    THEN PluginError(ErrorCodeBillingStatusChangeNotAllowed,
                     "rfp proposals do not have a billing status")
    ELSE LET b == p_billingStatusChanges(token, fail) IN
    IF b.err # NoErr
    THEN b.err
    ELSE IF Len(b.bscs) + 1 > billingStatusChangesMax
    THEN PluginError(ErrorCodeBillingStatusChangeNotAllowed,
                     "number of billing status changes exceeds the maximum")
    ELSE IF sbs.Status \notin billingStatusChanges(proposalBillingStatus(vsr.Status, b.bscs))
    THEN PluginError(ErrorCodeBillingStatusChangeNotAllowed,
                     "invalid billing status transition")
    ELSE NoErr

\* MutRFPByLinkTo: the RFP submissions are taken for the RFP proposals.
MutRFPByLinkTo(token, sbs, fail) ==
    LET vsr == voteSummary(token, fail) IN
    IF vsr.err # NoErr
    THEN vsr.err
    ELSE IF vsr.Status # VoteStatusApproved
    THEN PluginError(ErrorCodeBillingStatusChangeNotAllowed,
                     "setting billing status is allowed only if proposal vote was approved")
    ELSE LET r == record(token, fail) IN
    IF r.err # NoErr
    THEN r.err
    ELSE IF r.r.VoteMD # NoVoteMD /\ r.r.VoteMD.LinkTo # ""
    THEN PluginError(ErrorCodeBillingStatusChangeNotAllowed,
                     "rfp proposals do not have a billing status")
    ELSE LET b == p_billingStatusChanges(token, fail) IN
    IF b.err # NoErr
    THEN b.err
    ELSE IF Len(b.bscs) + 1 > billingStatusChangesMax
    THEN PluginError(ErrorCodeBillingStatusChangeNotAllowed,
                     "number of billing status changes exceeds the maximum")
    ELSE IF sbs.Status \notin billingStatusChanges(proposalBillingStatus(vsr.Status, b.bscs))
    THEN PluginError(ErrorCodeBillingStatusChangeNotAllowed,
                     "invalid billing status transition")
    ELSE NoErr

\* The checks of the proposal: its vote, its vote metadata, its billing history.
verifyProposal(token, sbs, fail) ==
    LET vsr == voteSummary(token, fail) IN
    IF vsr.err # NoErr
    THEN vsr.err
    ELSE IF vsr.Status # VoteStatusApproved
    THEN PluginError(ErrorCodeBillingStatusChangeNotAllowed,
                     "setting billing status is allowed only if proposal vote was approved")
    ELSE LET r == record(token, fail) IN
    IF r.err # NoErr
    THEN r.err
    ELSE IF isRFP(r.r.VoteMD)
    THEN PluginError(ErrorCodeBillingStatusChangeNotAllowed,
                     "rfp proposals do not have a billing status")
    ELSE LET b == p_billingStatusChanges(token, fail) IN
    IF b.err # NoErr
    THEN b.err
    ELSE IF Len(b.bscs) + 1 > billingStatusChangesMax
    THEN PluginError(ErrorCodeBillingStatusChangeNotAllowed,
                     "number of billing status changes exceeds the maximum")
    ELSE IF sbs.Status \notin billingStatusChanges(proposalBillingStatus(vsr.Status, b.bscs))
    THEN PluginError(ErrorCodeBillingStatusChangeNotAllowed,
                     "invalid billing status transition")
    ELSE NoErr

cmdSetBillingStatus(token, sbs, fail) ==
    IF verifyPayload(token, sbs) # NoErr
    THEN Failed(verifyPayload(token, sbs))
    ELSE IF verifyProposal(token, sbs, fail) # NoErr
    THEN Failed(verifyProposal(token, sbs, fail))
    ELSE IF fail = "save"
    THEN Failed(BackendError("save"))
    ELSE [err |-> NoErr,
          bsc |-> BillingStatusChange(sbs, now, HexEncode(SignMessage(sbs.Signature)))]

(***************************************************************************)
(* cmdBillingStatusChanges.                                                *)
(***************************************************************************)
cmdBillingStatusChanges(token, fail) == p_billingStatusChanges(token, fail)

(***************************************************************************)
(* cmdSummary.  The result is the status, the error and the cache as the   *)
(* command leaves it.                                                      *)
(***************************************************************************)
SummaryResult(s, err, cache) ==
    [s |-> s, err |-> err, data |-> cache.data, entries |-> cache.entries]

CacheUnchanged == [data |-> cacheData, entries |-> cacheEntries]

SummaryFailed(err) == SummaryResult(Nil, err, CacheUnchanged)

\* MutCacheWriteTransient: a status that can still change is cached as a
\* proposal status as well.
MutCacheWriteTransient(tokenStr, s, voteStatus) ==
    IF s \in {PropStatusActive, PropStatusCompleted, PropStatusClosed}
    THEN cacheVoteStatusSet(tokenStr, voteStatus)
    ELSE cacheProposalStatusSet(tokenStr, s)

\* MutCacheWriteQuasiTerminal: an active, completed or closed result is
\* cached as a proposal status, like a terminal one.
MutCacheWriteQuasiTerminal(tokenStr, s, voteStatus) ==
    IF s \in {PropStatusUnvettedAbandoned, PropStatusUnvettedCensored,
              PropStatusAbandoned, PropStatusCensored, PropStatusApproved,
              PropStatusRejected,
              PropStatusActive, PropStatusCompleted, PropStatusClosed}
    THEN cacheProposalStatusSet(tokenStr, s)
    ELSE CacheUnchanged

\* MutCacheWriteAnyVote: the vote status is cached whenever the vote summary
\* was fetched and the vote is authorized or started.
MutCacheWriteAnyVote(tokenStr, s, voteStatus) ==
    IF s \in {PropStatusUnvettedAbandoned, PropStatusUnvettedCensored,
              PropStatusAbandoned, PropStatusCensored, PropStatusApproved,
              PropStatusRejected}
    THEN cacheProposalStatusSet(tokenStr, s)
    ELSE IF s \in {PropStatusActive, PropStatusCompleted, PropStatusClosed,
                   PropStatusVoteAuthorized, PropStatusVoteStarted}
         THEN cacheVoteStatusSet(tokenStr, voteStatus)
         ELSE CacheUnchanged

\* MutCacheWriteBoth: for an active, completed or closed result the proposal
\* status is cached next to the vote status.
MutCacheWriteBoth(tokenStr, s, voteStatus) ==
    IF s \in {PropStatusUnvettedAbandoned, PropStatusUnvettedCensored,
              PropStatusAbandoned, PropStatusCensored, PropStatusApproved,
              PropStatusRejected}
    THEN cacheProposalStatusSet(tokenStr, s)
    ELSE IF s \in {PropStatusActive, PropStatusCompleted, PropStatusClosed}
         THEN [data |-> [cacheVoteStatusSet(tokenStr, voteStatus).data
                            EXCEPT ![tokenStr].proposalStatus = s],
               entries |-> cacheVoteStatusSet(tokenStr, voteStatus).entries]
         ELSE CacheUnchanged

\* The cache write that follows the derivation of proposal status s.
SummaryCacheWrite(tokenStr, s, voteStatus) ==
    IF s \in {PropStatusUnvettedAbandoned, PropStatusUnvettedCensored,
              PropStatusAbandoned, PropStatusCensored, PropStatusApproved,
              PropStatusRejected}
    THEN cacheProposalStatusSet(tokenStr, s)
    ELSE IF s \in {PropStatusActive, PropStatusCompleted, PropStatusClosed}
         THEN cacheVoteStatusSet(tokenStr, voteStatus)
         ELSE CacheUnchanged

\* The derivation of cmdSummary from the record r it has fetched: the vote
\* summary and the billing history are read as far as they are needed and
\* proposalStatus is applied to them.
SummaryDeriveRecord(r, token, fail) ==
    LET mdState == r.State
        mdStatus == r.Status
        voteMD == r.VoteMD
        fetchVote == mdState = StateVetted /\ mdStatus = StatusPublic
        vs == IF fetchVote THEN voteSummary(token, fail)
              ELSE [Status |-> VoteStatusInvalid, err |-> NoErr]
    IN
    IF vs.err # NoErr
    THEN [s |-> Nil, err |-> vs.err, voteStatus |-> Nil]
    ELSE LET voteStatus == vs.Status
             b == IF fetchVote /\ voteStatus = VoteStatusApproved
                  THEN p_billingStatusChanges(token, fail)
                  ELSE [bscs |-> <<>>, err |-> NoErr]
         IN
         IF b.err # NoErr
         THEN [s |-> Nil, err |-> b.err, voteStatus |-> Nil]
         ELSE LET ps == proposalStatus(mdState, mdStatus, voteStatus, voteMD, b.bscs) IN
              IF ps.err # NoErr
              THEN [s |-> Nil, err |-> ps.err, voteStatus |-> Nil]
              ELSE [s |-> ps.s, err |-> NoErr, voteStatus |-> voteStatus]

\* The derivation of cmdSummary when the cache gives nothing for the token:
\* the record is fetched and the status derived from it.
SummaryDerive(token, fail) ==
    LET r == record(token, fail) IN
    IF r.err # NoErr
    THEN [s |-> Nil, err |-> r.err, voteStatus |-> Nil]
    ELSE SummaryDeriveRecord(r.r, token, fail)

\* The path of cmdSummary taken when the cache gives nothing for the token.
SummarySlowPath(token, tokenStr, fail) ==
    LET d == SummaryDerive(token, fail) IN
    IF d.err # NoErr
    THEN SummaryFailed(d.err)
    ELSE SummaryResult(d.s, NoErr, SummaryCacheWrite(tokenStr, d.s, d.voteStatus))

\* MutSummaryCachedStale: with a cached vote status the billing history is not
\* fetched again and the proposal counts as active.
MutSummaryCachedStale(token, fail) ==
    SummaryResult(PropStatusActive, NoErr, CacheUnchanged)

\* MutSummaryCachedRefetchesVote: with a cached vote status the vote summary
\* is fetched again before the billing history is read.
MutSummaryCachedRefetchesVote(token, fail) ==
    LET vs == voteSummary(token, fail) IN
    IF vs.err # NoErr
    THEN SummaryFailed(vs.err)
    ELSE LET b == p_billingStatusChanges(token, fail) IN
         IF b.err # NoErr
         THEN SummaryFailed(b.err)
         ELSE LET ps == proposalStatusApproved(NoVoteMD, b.bscs) IN
              IF ps.err # NoErr
              THEN SummaryFailed(ps.err)
              ELSE SummaryResult(ps.s, NoErr, CacheUnchanged)

\* The path of cmdSummary taken when the cache holds a vote status only.
SummaryVoteStatusCached(token, fail) ==
    LET b == p_billingStatusChanges(token, fail) IN
    IF b.err # NoErr
    THEN SummaryFailed(b.err)
    ELSE LET ps == proposalStatusApproved(NoVoteMD, b.bscs) IN
         IF ps.err # NoErr
         THEN SummaryFailed(ps.err)
         ELSE SummaryResult(ps.s, NoErr, CacheUnchanged)

\* MutSummaryIgnoresCache: the cached proposal status is not looked at and
\* the status is derived from the backend each time.
MutSummaryIgnoresCache(token, fail) ==
    LET tokenStr == HexEncodeToString(token)
        d == cacheDataGet(tokenStr)
    IN
    IF d # NoData /\ d.proposalStatus = Nil /\ d.voteStatus # Nil
    THEN SummaryVoteStatusCached(token, fail)
    ELSE SummarySlowPath(token, tokenStr, fail)

cmdSummary(token, fail) ==
    LET tokenStr == HexEncodeToString(token)
        d == cacheDataGet(tokenStr)
    IN
    IF d # NoData /\ d.proposalStatus # Nil
    THEN SummaryResult(d.proposalStatus, NoErr, CacheUnchanged)
    ELSE IF d # NoData /\ d.voteStatus # Nil
    THEN SummaryVoteStatusCached(token, fail)
    ELSE SummarySlowPath(token, tokenStr, fail)

(***************************************************************************)
(* The plugin commands as actions.  reply is the last command: the token   *)
(* and payload it was given, the error it returned and, when there is      *)
(* none, its reply payload.                                                *)
(***************************************************************************)
NoPayload == [none |-> TRUE]

NoReply == [op |-> "none", token |-> 0, req |-> NoPayload, err |-> NoErr, val |-> Nil]

Reply(op, token, payload, err, val) ==
    [op |-> op, token |-> token, req |-> payload, err |-> err,
     val |-> IF err = NoErr THEN val ELSE Nil]

\* MutSaveBeforeTransitionCheck: the change is saved before the transition is
\* checked, so a request refused for its transition is persisted all the same.
MutSaveBeforeTransitionCheck(token, sbs, fail) ==
    LET out == cmdSetBillingStatus(token, sbs, fail)
        early == out.err.ctx = "invalid billing status transition"
        bsc == IF early
               THEN BillingStatusChange(sbs, now, HexEncode(SignMessage(sbs.Signature)))
               ELSE out.bsc
    IN
    /\ tstore' = IF out.err = NoErr \/ early THEN billingStatusSave(token, bsc) ELSE tstore
    /\ reply' = Reply("SetBillingStatus", token, sbs, out.err,
                      IF out.err = NoErr
                      THEN [Timestamp |-> out.bsc.Timestamp, Receipt |-> out.bsc.Receipt]
                      ELSE Nil)
    /\ UNCHANGED <<records, votes, now, cacheData, cacheEntries, arg, res>>

\* MutSetInvalidatesCache: a billing status change that is saved removes the
\* proposal's entry from the cache.
MutSetInvalidatesCache(token, sbs, fail) ==
    LET out == cmdSetBillingStatus(token, sbs, fail)
        tokenStr == HexEncodeToString(token)
        Other(t) == t # tokenStr
    IN
    /\ tstore' = IF out.err = NoErr THEN billingStatusSave(token, out.bsc) ELSE tstore
    /\ reply' = Reply("SetBillingStatus", token, sbs, out.err,
                      IF out.err = NoErr
                      THEN [Timestamp |-> out.bsc.Timestamp, Receipt |-> out.bsc.Receipt]
                      ELSE Nil)
    /\ cacheData' = IF out.err = NoErr
                    THEN [cacheData EXCEPT ![tokenStr] = NoData]
                    ELSE cacheData
    /\ cacheEntries' = IF out.err = NoErr
                       THEN SelectSeq(cacheEntries, Other)
                       ELSE cacheEntries
    /\ UNCHANGED <<records, votes, now, arg, res>>

DoSetBillingStatus(token, sbs, fail) ==
    LET out == cmdSetBillingStatus(token, sbs, fail) IN
    /\ tstore' = IF out.err = NoErr THEN billingStatusSave(token, out.bsc) ELSE tstore
    /\ reply' = Reply("SetBillingStatus", token, sbs, out.err,
                      IF out.err = NoErr
                      THEN [Timestamp |-> out.bsc.Timestamp, Receipt |-> out.bsc.Receipt]
                      ELSE Nil)
    /\ UNCHANGED <<records, votes, now, cacheData, cacheEntries, arg, res>>

DoBillingStatusChanges(token, fail) ==
    LET out == cmdBillingStatusChanges(token, fail) IN
    /\ reply' = Reply("BillingStatusChanges", token, NoPayload, out.err, out.bscs)
    /\ UNCHANGED <<records, votes, tstore, now, cacheData, cacheEntries, arg, res>>

DoSummary(token, fail) ==
    LET out == cmdSummary(token, fail) IN
    /\ cacheData' = out.data
    /\ cacheEntries' = out.entries
    /\ reply' = Reply("Summary", token, NoPayload, out.err, out.s)
    /\ UNCHANGED <<records, votes, tstore, now, arg, res>>

\* A second passes.
Tick ==
    /\ now < MaxTime
    /\ now' = now + 1
    /\ UNCHANGED <<records, votes, tstore, cacheData, cacheEntries, reply, arg, res>>

EmptyCache == [t \in HexTokens |-> NoData]

(***************************************************************************)
(* The requests.                                                           *)
(***************************************************************************)
Reasons == {"", "done"}

\* Every status a request can carry: the three that can be set and one that cannot.
RequestStatuses == {BillingStatusInvalid, BillingStatusActive, BillingStatusClosed,
                    BillingStatusCompleted}

PayloadTokens == {"01", "02", NotAToken}

\* The user's signature of the request, and a signature of something else.
GoodSignature(tk, st, rs) == HexEncode(Sign(UserKey, SignedMessage(tk, st, rs)))
BadSignature == HexEncode(Sign(UserKey, SignedMessage("", "", "")))

\* Every request.
AllPayloads ==
    {MalformedPayload} \cup
    UNION {{SetBillingStatus(tk, st, rs, pk, GoodSignature(tk, st, rs)),
            SetBillingStatus(tk, st, rs, pk, BadSignature)} :
           <<tk, st, rs, pk>> \in PayloadTokens \X RequestStatuses \X Reasons \X PublicKeys}

\* The well-formed requests for a token: each status, a reason only where it matters.
SignedPayloadsOf(token) ==
    LET tk == HexEncodeToString(token) IN
    {SetBillingStatus(tk, st, "", UserKey, GoodSignature(tk, st, "")) :
        st \in RequestStatuses} \cup
    {SetBillingStatus(tk, BillingStatusClosed, "done", UserKey,
                      GoodSignature(tk, BillingStatusClosed, "done"))}

\* The requests for a token that break one rule of the payload.
BrokenPayloadsOf(token) ==
    LET tk == HexEncodeToString(token) IN
    {MalformedPayload} \cup
    {SetBillingStatus(x, BillingStatusCompleted, "", UserKey,
                      GoodSignature(x, BillingStatusCompleted, "")) :
        x \in PayloadTokens \ {tk}} \cup
    {SetBillingStatus(tk, BillingStatusCompleted, "", BadKey,
                      GoodSignature(tk, BillingStatusCompleted, "")),
     SetBillingStatus(tk, BillingStatusCompleted, "", UserKey, BadSignature)}

\* The request during which a backend call fails.
FailingPayloadOf(token) ==
    SetBillingStatus(HexEncodeToString(token), BillingStatusCompleted, "", UserKey,
                     GoodSignature(HexEncodeToString(token), BillingStatusCompleted, ""))

(***************************************************************************)
(* Spec: the three commands on two proposals.  What the backend holds for  *)
(* a proposal (its record and its vote summary) is fixed from the start.   *)
(* Proposal 1 is any of Profiles, proposal 2 was rejected.                 *)
(***************************************************************************)
Tokens == {1, 2}

Profile(state, status, voteMD, vote) ==
    [State |-> state, Status |-> status, VoteMD |-> voteMD, Vote |-> vote]

Profiles ==
    {Profile(StateVetted, StatusPublic, vm, VoteStatusApproved) : vm \in VoteMDs} \cup
    {Profile(StateVetted, StatusPublic, VoteMD(0, ""), v) :
        v \in VoteStatuses \ {VoteStatusApproved}} \cup
    {Profile(StateUnvetted, StatusUnreviewed, VoteMD(0, ""), VoteStatusUnauthorized),
     Profile(StateVetted, StatusArchived, VoteMD(0, ""), VoteStatusApproved)}

Worlds ==
    {[t \in Tokens |->
        IF t = 1
        THEN p
        ELSE Profile(StateVetted, StatusPublic, VoteMD(0, ""), VoteStatusRejected)] :
     p \in Profiles}

RecordsOf(w) ==
    [t \in DOMAIN w |-> [State |-> w[t].State, Status |-> w[t].Status,
                         VoteMD |-> w[t].VoteMD]]

VotesOf(w) == [t \in DOMAIN w |-> w[t].Vote]

Init ==
    /\ \E w \in Worlds : records = RecordsOf(w) /\ votes = VotesOf(w)
    /\ tstore = [t \in Tokens |-> <<>>]
    /\ now = 1
    /\ cacheData = EmptyCache
    /\ cacheEntries = <<>>
    /\ reply = NoReply
    /\ arg = Nil
    /\ res = Nil

SetBillingStatusCmd ==
    \E token \in DOMAIN records :
        \/ \E sbs \in SignedPayloadsOf(token) \cup BrokenPayloadsOf(token) :
               DoSetBillingStatus(token, sbs, "none")
        \/ \E fail \in Failures :
               DoSetBillingStatus(token, FailingPayloadOf(token), fail)

BillingStatusChangesCmd ==
    \E token \in DOMAIN records, fail \in {"none", "blobs"} :
        DoBillingStatusChanges(token, fail)

SummaryCmd ==
    \E token \in DOMAIN records, fail \in {"none", "record", "voteSummary", "blobs"} :
        DoSummary(token, fail)

Next ==
    \/ SetBillingStatusCmd
    \/ BillingStatusChangesCmd
    \/ SummaryCmd
    \/ Tick

Spec == Init /\ [][Next]_vars

(***************************************************************************)
(* SpecRequest: set billing status requests of every kind, sent to         *)
(* proposal 1 in a state of the backend that the commands can have         *)
(* produced.  The vote and the vote metadata of proposal 1 are any, its    *)
(* billing history is any history that set billing status can have         *)
(* written by now; proposal 2 is approved and has a completed change.  The *)
(* request arg is sent once or several times.                              *)
(***************************************************************************)
\* The change a well-formed request of the user leaves when accepted at time ts.
AcceptedChange(tk, st, rs, ts) ==
    LET sbs == SetBillingStatus(tk, st, rs, UserKey, GoodSignature(tk, st, rs)) IN
    BillingStatusChange(sbs, ts, HexEncode(SignMessage(sbs.Signature)))

\* The histories of n changes that can have been written by time T.
RECURSIVE LegalHistories(_, _, _)
LegalHistories(tk, n, T) ==
    IF n = 0
    THEN {<<>>}
    ELSE {Append(h, AcceptedChange(tk, st, rs, ts)) :
            <<h, st, rs, ts>> \in
              {x \in LegalHistories(tk, n - 1, T) \X BillingStatuses \X Reasons \X (1..T) :
                  /\ x[2] \in {BillingStatusActive, BillingStatusClosed,
                              BillingStatusCompleted}
                  /\ x[2] # (IF x[1] = <<>> THEN BillingStatusActive
                             ELSE x[1][Len(x[1])].Status)
                  /\ x[2] = BillingStatusClosed => x[3] # ""
                  /\ x[1] # <<>> => x[1][Len(x[1])].Timestamp <= x[4]}}

HistoriesBy(tk, T) == UNION {LegalHistories(tk, n, T) : n \in 0..billingStatusChangesMax}

EncodeAll(h) == [i \in 1..Len(h) |-> billingStatusEncode(h[i])]

Requests == [token : {1}, sbs : AllPayloads, fail : Failures]

InitRequest ==
    /\ now \in 1..MaxTime
    /\ \E vm \in VoteMDs, v \in VoteStatuses :
          /\ records = [t \in Tokens |->
                           [State |-> StateVetted, Status |-> StatusPublic,
                            VoteMD |-> IF t = 1 THEN vm ELSE VoteMD(0, "")]]
          /\ votes = [t \in Tokens |-> IF t = 1 THEN v ELSE VoteStatusApproved]
          /\ \E h \in (IF v = VoteStatusApproved /\ ~isRFP(vm)
                       THEN HistoriesBy("01", now) ELSE {<<>>}) :
                tstore = [t \in Tokens |->
                             IF t = 1
                             THEN EncodeAll(h)
                             ELSE <<billingStatusEncode(
                                       AcceptedChange("02", BillingStatusCompleted, "", 1))>>]
    /\ cacheData = EmptyCache
    /\ cacheEntries = <<>>
    /\ reply = NoReply
    /\ arg \in Requests
    /\ res = Nil

SendRequest == DoSetBillingStatus(arg.token, arg.sbs, arg.fail)

NextRequest == SendRequest

SpecRequest == InitRequest /\ [][NextRequest]_vars

(***************************************************************************)
(* The status derivation on its own: the arguments are drawn at the start  *)
(* and proposalStatus is applied to them.                                  *)
(***************************************************************************)
NoResult == [none |-> TRUE]

\* The billing histories of n changes, of any status, oldest first: the
\* timestamps do not decrease, and two changes can have the same one.
RECURSIVE StatusHistories(_)
StatusHistories(n) ==
    IF n = 0
    THEN {<<>>}
    ELSE {Append(x[1], AcceptedChange("01", x[2], "done", x[3])) :
            x \in {y \in StatusHistories(n - 1) \X BillingStatuses \X (1..MaxTime) :
                      y[1] # <<>> => y[1][Len(y[1])].Timestamp <= y[3]}}

StatusArgs ==
    [state : States, status : Statuses, voteStatus : VoteStatuses,
     voteMD : VoteMDs, bscs : UNION {StatusHistories(n) : n \in 0..MaxHist}]

\* The record and the vote of proposal 1 are those of the arguments; nothing
\* has been persisted or cached yet.
InitStatus ==
    /\ arg \in StatusArgs
    /\ res = NoResult
    /\ records = [t \in Tokens |->
                     IF t = 1
                     THEN [State |-> arg.state, Status |-> arg.status,
                           VoteMD |-> arg.voteMD]
                     ELSE [State |-> StateVetted, Status |-> StatusPublic,
                           VoteMD |-> NoVoteMD]]
    /\ votes = [t \in Tokens |-> IF t = 1 THEN arg.voteStatus ELSE VoteStatusUnauthorized]
    /\ tstore = [t \in Tokens |-> <<>>]
    /\ now = 1
    /\ cacheData = EmptyCache
    /\ cacheEntries = <<>>
    /\ reply = NoReply

DeriveStatus ==
    /\ res' = proposalStatus(arg.state, arg.status, arg.voteStatus, arg.voteMD, arg.bscs)
    /\ UNCHANGED <<records, votes, tstore, now, cacheData, cacheEntries, reply, arg>>

\* A summary of the proposal the arguments describe.
SummaryStatus == DoSummary(1, "none")

NextStatus == DeriveStatus \/ SummaryStatus

SpecStatus == InitStatus /\ [][NextStatus]_vars

(***************************************************************************)
(* The commands over a store that the plugin does not trust: the backend   *)
(* returns the blobs of proposal 1 in any order, and a blob can be         *)
(* corrupt.                                                                *)
(***************************************************************************)
\* A blob with the descriptor of another plugin's data.
WrongDescriptor(be) ==
    [be EXCEPT !.DataHint = Base64Encode(JsonMarshal(DataDescriptor("pi-other-v1")))]

\* A blob whose data was replaced after its digest was computed.
Tampered(be) ==
    [be EXCEPT !.Data = Base64Encode(JsonMarshal(
                   AcceptedChange("01", BillingStatusCompleted, "tampered", 1)))]

CorruptBlobs ==
    LET be == billingStatusEncode(AcceptedChange("01", BillingStatusActive, "done", 1))
    IN {WrongDescriptor(be), Tampered(be)}

StoreBlobs ==
    {billingStatusEncode(AcceptedChange("01", st, "done", ts)) :
        st \in {BillingStatusActive, BillingStatusClosed, BillingStatusCompleted},
        ts \in 1..MaxTime} \cup CorruptBlobs

Stores == UNION {[1..n -> StoreBlobs] : n \in 0..MaxHist}

\* Proposal 1 is approved, an approved RFP, or rejected.
StoreProfiles ==
    {Profile(StateVetted, StatusPublic, VoteMD(0, ""), VoteStatusApproved),
     Profile(StateVetted, StatusPublic, VoteMD(1, ""), VoteStatusApproved),
     Profile(StateVetted, StatusPublic, VoteMD(0, ""), VoteStatusRejected)}

\* The cache is empty, or holds the vote status of proposal 1 from a summary
\* made when it was approved and no RFP.
InitStore ==
    /\ \E p \in StoreProfiles :
          /\ records = RecordsOf([t \in Tokens |->
                           IF t = 1 THEN p
                           ELSE Profile(StateVetted, StatusPublic, VoteMD(0, ""),
                                        VoteStatusRejected)])
          /\ votes = [t \in Tokens |-> IF t = 1 THEN p.Vote ELSE VoteStatusRejected]
          /\ \/ cacheData = EmptyCache /\ cacheEntries = <<>>
             \/ /\ p.Vote = VoteStatusApproved /\ ~isRFP(p.VoteMD)
                /\ cacheData = [EmptyCache EXCEPT !["01"] = CacheDataOf(Nil, VoteStatusApproved)]
                /\ cacheEntries = <<"01">>
    /\ \E h \in Stores : tstore = [t \in Tokens |-> IF t = 1 THEN h ELSE <<>>]
    /\ now = MaxTime
    /\ reply = NoReply
    /\ arg = Nil
    /\ res = Nil

NextStore ==
    \/ DoBillingStatusChanges(1, "none")
    \/ DoSummary(1, "none")
    \/ \E sbs \in SignedPayloadsOf(1) : DoSetBillingStatus(1, sbs, "none")

SpecStore == InitStore /\ [][NextStore]_vars

(***************************************************************************)
(* The blob codec on its own: a billing status change is encoded, the blob *)
(* is damaged or not, and the blob is decoded.                             *)
(***************************************************************************)
CodecChanges ==
    {AcceptedChange(tk, st, rs, ts) :
        tk \in {"01", "02"}, st \in BillingStatuses,
        rs \in Reasons \cup {InvalidUTF8}, ts \in 1..MaxTime}

Damages == {"none", "data", "descriptor", "both"}

Damage(kind, be) ==
    CASE kind = "data" -> Tampered(be)
      [] kind = "descriptor" -> WrongDescriptor(be)
      [] kind = "both" -> WrongDescriptor(Tampered(be))
      [] OTHER -> be

InitCodec ==
    /\ arg \in [bsc : CodecChanges, damage : Damages]
    /\ res = NoResult
    /\ records = [t \in Tokens |->
                     [State |-> StateVetted, Status |-> StatusPublic, VoteMD |-> NoVoteMD]]
    /\ votes = [t \in Tokens |-> VoteStatusUnauthorized]
    /\ tstore = [t \in Tokens |-> <<>>]
    /\ now = 1
    /\ cacheData = EmptyCache
    /\ cacheEntries = <<>>
    /\ reply = NoReply

EncodeBlob ==
    /\ res = NoResult
    /\ res' = [be |-> Damage(arg.damage, billingStatusEncode(arg.bsc)), out |-> NoResult]
    /\ UNCHANGED <<records, votes, tstore, now, cacheData, cacheEntries, reply, arg>>

DecodeBlob ==
    /\ "be" \in DOMAIN res
    /\ res.out = NoResult
    /\ res' = [res EXCEPT !.out = billingStatusDecode(res.be)]
    /\ UNCHANGED <<records, votes, tstore, now, cacheData, cacheEntries, reply, arg>>

NextCodec == EncodeBlob \/ DecodeBlob

SpecCodec == InitCodec /\ [][NextCodec]_vars

(***************************************************************************)
(* Concurrent summaries.  Each invocation runs cmdSummary step by step:    *)
(* the cache lookup and the cache write take the cache lock in a step of   *)
(* their own and give it back with their last statement; what lies between *)
(* them, the fetch of the record and the other backend calls, interleaves  *)
(* with the other invocation.  arg holds the local                         *)
(* variables of the invocations, with lock telling whether the invocation  *)
(* holds the cache lock and seen whether its token had been written to the *)
(* cache when it was called; res is the log of the cache writes: which     *)
(* token was inserted or overwritten, in the order of the writes.          *)
(***************************************************************************)
Procs == {1, 2}

Idle == [pc |-> "idle", token |-> 0, d |-> NoData, s |-> Nil, err |-> NoErr,
         voteStatus |-> Nil, lock |-> FALSE, seen |-> FALSE, r |-> [nil |-> TRUE]]

\* Proposal 1 is approved, proposal 2 rejected, proposal 3 abandoned or
\* still under review.
InitCache ==
    /\ \E p3 \in {Profile(StateVetted, StatusArchived, VoteMD(0, ""), VoteStatusInvalid),
                  Profile(StateVetted, StatusPublic, VoteMD(0, ""), VoteStatusUnauthorized)} :
          LET w == [t \in AllTokens |->
                      CASE t = 1 -> Profile(StateVetted, StatusPublic, VoteMD(0, ""),
                                            VoteStatusApproved)
                        [] t = 2 -> Profile(StateVetted, StatusPublic, VoteMD(0, ""),
                                            VoteStatusRejected)
                        [] OTHER -> p3]
          IN records = RecordsOf(w) /\ votes = VotesOf(w)
    /\ tstore = [t \in AllTokens |-> <<>>]
    /\ now = 1
    /\ cacheData = EmptyCache
    /\ cacheEntries = <<>>
    /\ reply = NoReply
    /\ arg = [p \in Procs |-> Idle]
    /\ res = <<>>

\* cmdSummary is called for a token.
SummaryCall(p, token) ==
    /\ arg[p].pc = "idle"
    /\ Len(res) < MaxWrites
    /\ arg' = [arg EXCEPT ![p] = [Idle EXCEPT !.pc = "get", !.token = token,
                                               !.seen =
                                                   \E i \in 1..Len(res) :
                                                       res[i].token = HexEncodeToString(token)]]
    /\ UNCHANGED <<records, votes, tstore, now, cacheData, cacheEntries, reply, res>>

\* p.cache.Lock() at the head of cacheDataGet and of the two setters: the
\* invocation waits until no invocation holds the lock and takes it.  The
\* switch of cmdSummary calls no setter for a status that can still change.
CacheLock(p) ==
    /\ \/ arg[p].pc = "get"
       \/ /\ arg[p].pc = "write"
          /\ arg[p].s \notin {PropStatusUnvetted, PropStatusUnderReview,
                               PropStatusVoteAuthorized, PropStatusVoteStarted}
    /\ \A q \in DOMAIN arg : ~arg[q].lock
    /\ arg' = [arg EXCEPT ![p].lock = TRUE]
    /\ UNCHANGED <<records, votes, tstore, now, cacheData, cacheEntries, reply, res>>

\* MutGetKeepsLock: cacheDataGet returns without giving the lock back.
MutGetKeepsLock(p) ==
    /\ arg[p].pc = "get"
    /\ arg[p].lock
    /\ arg' = [arg EXCEPT ![p].pc = "inspect",
                          ![p].d = cacheDataGet(HexEncodeToString(arg[p].token))]
    /\ UNCHANGED <<records, votes, tstore, now, cacheData, cacheEntries, reply, res>>

\* d := p.cacheDataGet(tokenStr): the entry is read under the cache lock and
\* the lock is given back.
SummaryGet(p) ==
    /\ arg[p].pc = "get"
    /\ arg[p].lock
    /\ arg' = [arg EXCEPT ![p].pc = "inspect", ![p].lock = FALSE,
                          ![p].d = cacheDataGet(HexEncodeToString(arg[p].token))]
    /\ UNCHANGED <<records, votes, tstore, now, cacheData, cacheEntries, reply, res>>

\* The tests of d, d.proposalStatus and d.voteStatus.
SummaryInspect(p) ==
    /\ arg[p].pc = "inspect"
    /\ LET d == arg[p].d IN
       arg' = IF d # NoData /\ d.proposalStatus # Nil
              THEN [arg EXCEPT ![p].pc = "reply", ![p].s = d.proposalStatus]
              ELSE IF d # NoData /\ d.voteStatus # Nil
              THEN [arg EXCEPT ![p].pc = "fast"]
              ELSE [arg EXCEPT ![p].pc = "slow"]
    /\ UNCHANGED <<records, votes, tstore, now, cacheData, cacheEntries, reply, res>>

\* The billing history is read and decides the status of the approved proposal.
SummaryFast(p) ==
    /\ arg[p].pc = "fast"
    /\ LET out == SummaryVoteStatusCached(arg[p].token, "none") IN
       arg' = [arg EXCEPT ![p].pc = "reply", ![p].s = out.s, ![p].err = out.err]
    /\ UNCHANGED <<records, votes, tstore, now, cacheData, cacheEntries, reply, res>>

\* r, err = p.record(...): the abridged record is fetched.
SummaryRecord(p) ==
    /\ arg[p].pc = "slow"
    /\ LET r == record(arg[p].token, "none") IN
       arg' = IF r.err # NoErr
              THEN [arg EXCEPT ![p].pc = "reply", ![p].err = r.err]
              ELSE [arg EXCEPT ![p].pc = "derive", ![p].r = r.r]
    /\ UNCHANGED <<records, votes, tstore, now, cacheData, cacheEntries, reply, res>>

\* The vote summary and the billing history are read as far as the record
\* asks for them and proposalStatus is applied.
SummarySlow(p) ==
    /\ arg[p].pc = "derive"
    /\ LET out == SummaryDeriveRecord(arg[p].r, arg[p].token, "none") IN
       arg' = [arg EXCEPT ![p].pc = IF out.err = NoErr THEN "write" ELSE "reply",
                          ![p].s = out.s, ![p].err = out.err,
                          ![p].voteStatus = out.voteStatus]
    /\ UNCHANGED <<records, votes, tstore, now, cacheData, cacheEntries, reply, res>>

\* The switch on the status: the body of the setter, under the cache lock,
\* which is given back, or nothing.  A write is logged as an insert when the
\* token was not in the cache and as an overwrite when it was.
SummaryWrite(p) ==
    /\ arg[p].pc = "write"
    /\ \/ arg[p].lock
       \/ arg[p].s \in {PropStatusUnvetted, PropStatusUnderReview,
                         PropStatusVoteAuthorized, PropStatusVoteStarted}
    /\ LET tokenStr == HexEncodeToString(arg[p].token)
           out == SummaryCacheWrite(tokenStr, arg[p].s, arg[p].voteStatus)
       IN /\ cacheData' = out.data
          /\ cacheEntries' = out.entries
          /\ res' = IF arg[p].s \in {PropStatusUnvetted, PropStatusUnderReview,
                                       PropStatusVoteAuthorized, PropStatusVoteStarted}
                    THEN res
                    ELSE Append(res, [kind |-> IF cacheData[tokenStr] = NoData
                                               THEN "insert" ELSE "overwrite",
                                      token |-> tokenStr])
    /\ arg' = [arg EXCEPT ![p].pc = "reply", ![p].lock = FALSE]
    /\ UNCHANGED <<records, votes, tstore, now, reply>>

\* cmdSummary returns.
SummaryReturn(p) ==
    /\ arg[p].pc = "reply"
    /\ reply' = Reply("Summary", arg[p].token, NoPayload, arg[p].err, arg[p].s)
    /\ arg' = [arg EXCEPT ![p] = Idle]
    /\ UNCHANGED <<records, votes, tstore, now, cacheData, cacheEntries, res>>

NextCache ==
    \E p \in Procs :
        \/ \E token \in AllTokens : SummaryCall(p, token)
        \/ CacheLock(p)
        \/ SummaryGet(p)
        \/ SummaryInspect(p)
        \/ SummaryFast(p)
        \/ SummaryRecord(p)
        \/ SummarySlow(p)
        \/ SummaryWrite(p)
        \/ SummaryReturn(p)

SpecCache == InitCache /\ [][NextCache]_vars

(***************************************************************************)
(* The life of a proposal.  The record and the vote of proposal 1 move on  *)
(* while summaries of it run concurrently, step by step, and set billing   *)
(* status commands are served.  The moves are those of the backend and of  *)
(* the vote plugin: an unreviewed record is made public, censored or       *)
(* abandoned; the vote of a public record is authorized, started and ends  *)
(* approved or rejected; a public record is censored or abandoned as long  *)
(* as its vote has not started.  Nothing moves once the record is censored *)
(* or abandoned or the vote has ended.                                     *)
(***************************************************************************)
LifeTokens == {1}

\* The requests that pass the checks of the payload.
RacePayloadsOf(token) ==
    {sbs \in SignedPayloadsOf(token) : verifyPayload(token, sbs) = NoErr}

\* The states a proposal can move to from its record metadata and vote status.
Successors(r, v) ==
    CASE r.State = StateUnvetted /\ r.Status = StatusUnreviewed ->
             {[State |-> StateVetted, Status |-> StatusPublic, Vote |-> VoteStatusUnauthorized],
              [State |-> StateUnvetted, Status |-> StatusCensored, Vote |-> v],
              [State |-> StateUnvetted, Status |-> StatusArchived, Vote |-> v]}
      [] r.State = StateVetted /\ r.Status = StatusPublic /\ v = VoteStatusUnauthorized ->
             {[State |-> StateVetted, Status |-> StatusPublic, Vote |-> VoteStatusAuthorized],
              [State |-> StateVetted, Status |-> StatusCensored, Vote |-> v],
              [State |-> StateVetted, Status |-> StatusArchived, Vote |-> v]}
      [] r.State = StateVetted /\ r.Status = StatusPublic /\ v = VoteStatusAuthorized ->
             {[State |-> StateVetted, Status |-> StatusPublic, Vote |-> VoteStatusStarted],
              [State |-> StateVetted, Status |-> StatusCensored, Vote |-> v],
              [State |-> StateVetted, Status |-> StatusArchived, Vote |-> v]}
      [] r.State = StateVetted /\ r.Status = StatusPublic /\ v = VoteStatusStarted ->
             {[State |-> StateVetted, Status |-> StatusPublic, Vote |-> VoteStatusApproved],
              [State |-> StateVetted, Status |-> StatusPublic, Vote |-> VoteStatusRejected]}
      [] OTHER -> {}

\* The record or the vote of a proposal moves on.
Advance(t) ==
    /\ \E n \in Successors(records[t], votes[t]) :
          /\ records' = [records EXCEPT ![t].State = n.State, ![t].Status = n.Status]
          /\ votes' = [votes EXCEPT ![t] = n.Vote]
    /\ UNCHANGED <<tstore, now, cacheData, cacheEntries, reply, arg, res>>

InitLife ==
    /\ \E vm \in VoteMDs :
          LET w == [t \in LifeTokens |->
                       Profile(StateUnvetted, StatusUnreviewed, vm, VoteStatusUnauthorized)]
          IN records = RecordsOf(w) /\ votes = VotesOf(w)
    /\ tstore = [t \in LifeTokens |-> <<>>]
    /\ now = 1
    /\ cacheData = EmptyCache
    /\ cacheEntries = <<>>
    /\ reply = NoReply
    /\ arg = [p \in Procs |-> Idle]
    /\ res = <<>>

NextLife ==
    \/ \E p \in Procs :
          \/ \E token \in LifeTokens : SummaryCall(p, token)
          \/ CacheLock(p)
          \/ SummaryGet(p)
          \/ SummaryInspect(p)
          \/ SummaryFast(p)
          \/ SummaryRecord(p)
          \/ SummarySlow(p)
          \/ SummaryWrite(p)
          \/ SummaryReturn(p)
    \/ \E token \in LifeTokens :
          \/ Advance(token)
          \/ \E sbs \in RacePayloadsOf(token) : DoSetBillingStatus(token, sbs, "none")

SpecLife == InitLife /\ [][NextLife]_vars

(***************************************************************************)
(* Concurrent set billing status commands.  Each invocation runs           *)
(* cmdSetBillingStatus in two steps: the checks, which read the billing    *)
(* history, and the save.  arg holds the local variables of the            *)
(* invocations, with len the length of the history the checks read.  The   *)
(* backend that calls the plugin may or may not run the write commands of  *)
(* one token one after the other: res.serialized tells which, and          *)
(* res.validated[t][i] is the length of the history against which the      *)
(* change persisted as number i of token t was checked.                    *)
(***************************************************************************)
SetIdle == [pc |-> "idle", token |-> 0, sbs |-> NoPayload, err |-> NoErr, len |-> 0,
            bsc |-> NoPayload]

\* MutTokenNotLocked: the backend does not hold the lock of the token while
\* the plugin command runs.
MutTokenNotLocked(p) == TRUE

\* MutTokenLockedAfterSave: the lock of the token is held only from the save
\* of the change to the return of the command, not while the history is
\* read and checked.
MutTokenLockedAfterSave(p) ==
    \A q \in DOMAIN arg \ {p} :
        arg[q].token # arg[p].token \/ arg[q].pc \notin {"reply"}

\* No other invocation is inside a write command of the token of p.
TokenFree(p) ==
    \A q \in DOMAIN arg \ {p} :
        arg[q].token # arg[p].token \/ arg[q].pc \notin {"save", "reply"}

\* The proposal the commands are sent to.
RaceTokens == {1}

InitRace ==
    /\ LET w == [t \in Tokens |->
                    Profile(StateVetted, StatusPublic, VoteMD(0, ""), VoteStatusApproved)]
       IN records = RecordsOf(w) /\ votes = VotesOf(w)
    /\ tstore = [t \in Tokens |-> <<>>]
    /\ now = 1
    /\ cacheData = EmptyCache
    /\ cacheEntries = <<>>
    /\ reply = NoReply
    /\ arg = [p \in Procs |-> SetIdle]
    /\ \E b \in BOOLEAN :
          res = [serialized |-> b, validated |-> [t \in Tokens |-> <<>>]]

\* cmdSetBillingStatus is called for a token with a payload.
SetCall(p, token, sbs) ==
    /\ arg[p].pc = "idle"
    /\ arg' = [arg EXCEPT ![p] = [SetIdle EXCEPT !.pc = "verify", !.token = token,
                                                  !.sbs = sbs]]
    /\ UNCHANGED <<records, votes, tstore, now, cacheData, cacheEntries, reply, res>>

\* The checks of the payload and of the proposal, the latter on the vote
\* summary, the record and the billing history as they are read now.  A
\* backend that serializes the writes of a token lets the command start only
\* when no other write command of the token is running.
SetVerify(p) ==
    /\ arg[p].pc = "verify"
    /\ res.serialized => TokenFree(p)
    /\ LET out == cmdSetBillingStatus(arg[p].token, arg[p].sbs, "none") IN
       arg' = [arg EXCEPT ![p].pc = IF out.err = NoErr THEN "save" ELSE "reply",
                          ![p].err = out.err,
                          ![p].len = Len(BlobsByDataDesc(arg[p].token))]
    /\ UNCHANGED <<records, votes, tstore, now, cacheData, cacheEntries, reply, res>>

\* The change gets its timestamp and its receipt and is saved.
SetSave(p) ==
    /\ arg[p].pc = "save"
    /\ LET bsc == BillingStatusChange(arg[p].sbs, now,
                                      HexEncode(SignMessage(arg[p].sbs.Signature)))
       IN /\ tstore' = billingStatusSave(arg[p].token, bsc)
          /\ arg' = [arg EXCEPT ![p].pc = "reply", ![p].bsc = bsc]
    /\ res' = [res EXCEPT !.validated[arg[p].token] = Append(@, arg[p].len)]
    /\ UNCHANGED <<records, votes, now, cacheData, cacheEntries, reply>>

\* cmdSetBillingStatus returns.
SetReturn(p) ==
    /\ arg[p].pc = "reply"
    /\ reply' = Reply("SetBillingStatus", arg[p].token, arg[p].sbs, arg[p].err,
                      IF arg[p].err = NoErr
                      THEN [Timestamp |-> arg[p].bsc.Timestamp, Receipt |-> arg[p].bsc.Receipt]
                      ELSE Nil)
    /\ arg' = [arg EXCEPT ![p] = SetIdle]
    /\ UNCHANGED <<records, votes, tstore, now, cacheData, cacheEntries, res>>

NextRace ==
    \/ \E p \in Procs :
          \/ \E token \in RaceTokens : \E sbs \in RacePayloadsOf(token) :
                SetCall(p, token, sbs)
          \/ SetVerify(p)
          \/ SetSave(p)
          \/ SetReturn(p)
    \/ Tick

SpecRace == InitRace /\ [][NextRace]_vars

(***************************************************************************)
(* Properties.                                                             *)
(***************************************************************************)
\* The billing status change of a blob that billingStatusSave wrote.
ChangeOf(be) == JsonUnmarshal(Base64Decode(be.Data))

\* The changes persisted for a token, in the order they were persisted.
Persisted(t) == [i \in 1..Len(tstore[t]) |-> ChangeOf(tstore[t][i])]

\* Under Spec every history is one of those InitRequest starts from.
HistoriesAreLegal ==
    \A t \in DOMAIN tstore : Persisted(t) \in HistoriesBy(HexEncodeToString(t), now)

PropStatusOf(bs) ==
    CASE bs = BillingStatusActive -> PropStatusActive
      [] bs = BillingStatusClosed -> PropStatusClosed
      [] bs = BillingStatusCompleted -> PropStatusCompleted
      [] OTHER -> PropStatusInvalid

\* The proposal is vetted and public, its vote approved, and it is no RFP.
ApprovedNonRFP(t) ==
    /\ records[t].State = StateVetted
    /\ records[t].Status = StatusPublic
    /\ votes[t] = VoteStatusApproved
    /\ \/ records[t].VoteMD = NoVoteMD
       \/ records[t].VoteMD.LinkBy = 0

\* C1: after any sequence of commands, a summary of an approved proposal
\* that is no RFP returns active when no billing status change has been
\* persisted for it and otherwise the proposal status of the change persisted
\* last, whether or not the vote status is cached; it returns an error only
\* when a backend call fails.
C1_SummaryFollowsBilling ==
    \A t \in DOMAIN records :
        (reply.op = "Summary" /\ reply.token = t /\ ApprovedNonRFP(t)) =>
            \/ reply.err.code = "BackendError"
            \/ /\ reply.err = NoErr
               /\ reply.val = IF tstore[t] = <<>>
                              THEN PropStatusActive
                              ELSE PropStatusOf(Persisted(t)[Len(tstore[t])].Status)

\* C1 witness: a summary returned closed for a proposal with a cached vote
\* status, after a completed and then a closed change were persisted.
C1_Witness ==
    /\ reply.op = "Summary" /\ reply.token = 1 /\ reply.err = NoErr
    /\ ApprovedNonRFP(1)
    /\ reply.val = PropStatusClosed
    /\ Len(tstore[1]) = 2
    /\ Persisted(1)[1].Status = BillingStatusCompleted
    /\ cacheData["01"] # NoData
    /\ cacheData["01"].voteStatus = VoteStatusApproved

\* C2: a set billing status command that returns an error, whatever the
\* error, leaves the billing status history of every token as it was.
C2_FailedSetWritesNothing ==
    [][(reply'.op = "SetBillingStatus" /\ reply'.err # NoErr) => tstore' = tstore]_vars

\* C2 witness: a request was refused for its transition on a proposal that
\* has a history, and the history is still there.
C2_Witness ==
    /\ reply.op = "SetBillingStatus"
    /\ reply.err = PluginError(ErrorCodeBillingStatusChangeNotAllowed,
                               "invalid billing status transition")
    /\ Len(tstore[reply.token]) = 1

\* The rules of set billing status in the order of the claim, each as the
\* request and the state before the command break it.
Rules == 1..8

RuleBroken(i, token, sbs) ==
    CASE i = 1 -> sbs.Token # HexEncodeToString(token)
      [] i = 2 -> sbs.Status \notin {BillingStatusActive, BillingStatusClosed,
                                    BillingStatusCompleted}
      [] i = 3 -> \/ sbs.PublicKey # UserKey
                  \/ sbs.Signature # GoodSignature(sbs.Token, sbs.Status, sbs.Reason)
      [] i = 4 -> sbs.Status = BillingStatusClosed /\ sbs.Reason = ""
      [] i = 5 -> votes[token] # VoteStatusApproved
      [] i = 6 -> records[token].VoteMD # NoVoteMD /\ records[token].VoteMD.LinkBy # 0
      [] i = 7 -> Len(tstore[token]) >= billingStatusChangesMax
      [] i = 8 -> sbs.Status \notin billingStatusChanges(
                      IF tstore[token] = <<>> THEN BillingStatusActive
                      ELSE Persisted(token)[Len(tstore[token])].Status)

\* Whether err is the error of rule i.
ErrorOfRule(i, sbs, err) ==
    CASE i = 1 -> err.code = ErrorCodeTokenInvalid
      [] i = 2 -> err.code = ErrorCodeBillingStatusInvalid
      [] i = 3 -> err.code = IF sbs.PublicKey # UserKey
                             THEN ErrorCodePublicKeyInvalid
                             ELSE ErrorCodeSignatureInvalid
      [] i = 4 -> err = PluginError(ErrorCodeBillingStatusChangeNotAllowed,
                      "must provide a reason when setting billing status to closed")
      [] i = 5 -> err = PluginError(ErrorCodeBillingStatusChangeNotAllowed,
                      "setting billing status is allowed only if proposal vote was approved")
      [] i = 6 -> err = PluginError(ErrorCodeBillingStatusChangeNotAllowed,
                      "rfp proposals do not have a billing status")
      [] i = 7 -> err = PluginError(ErrorCodeBillingStatusChangeNotAllowed,
                      "number of billing status changes exceeds the maximum")
      [] i = 8 -> err = PluginError(ErrorCodeBillingStatusChangeNotAllowed,
                      "invalid billing status transition")

BrokenRules(token, sbs) == {i \in Rules : RuleBroken(i, token, sbs)}

FirstBroken(token, sbs) ==
    CHOOSE i \in BrokenRules(token, sbs) : \A j \in BrokenRules(token, sbs) : i <= j

\* C3: the error of a set billing status request that breaks several rules
\* is the error of the first rule it breaks, in the order token, status,
\* signature, reason, vote, RFP, cap, transition; a request that breaks one
\* of the first four is refused with that error whatever the backend does,
\* and a request is accepted only when it breaks none.
C3_FirstFailingCheck ==
    [][(reply'.op = "SetBillingStatus" /\ reply'.req # MalformedPayload) =>
        LET token == reply'.token
            sbs == reply'.req
            err == reply'.err
            broken == BrokenRules(token, sbs)
        IN
        /\ err = NoErr => broken = {}
        /\ (err # NoErr /\ err.code # "BackendError") =>
              /\ broken # {}
              /\ ErrorOfRule(FirstBroken(token, sbs), sbs, err)
        /\ (broken \cap 1..4 # {}) => ErrorOfRule(FirstBroken(token, sbs), sbs, err)
      ]_vars

\* C3 witness: a closed request without a reason and with a bad signature was
\* sent to a proposal whose vote was rejected while the vote summary was
\* failing, and it was refused for its signature.
C3_Witness ==
    /\ reply.op = "SetBillingStatus"
    /\ reply.req # MalformedPayload
    /\ reply.req.Token = "01" /\ reply.token = 1
    /\ reply.req.Status = BillingStatusClosed /\ reply.req.Reason = ""
    /\ reply.req.PublicKey = UserKey /\ reply.req.Signature = BadSignature
    /\ votes[1] = VoteStatusRejected
    /\ arg.fail = "voteSummary"
    /\ reply.err.code = ErrorCodeSignatureInvalid

\* The request is well formed and breaks none of the rules before rule i.
PassesUpTo(i, token, sbs) ==
    /\ sbs # MalformedPayload
    /\ BrokenRules(token, sbs) \cap 1..(i - 1) = {}

CapError ==
    PluginError(ErrorCodeBillingStatusChangeNotAllowed,
                "number of billing status changes exceeds the maximum")

\* C4: no token ever has more persisted billing status changes than the
\* configured maximum, and a request that passes the checks before the cap,
\* made when the history holds the maximum, is refused for the cap whether
\* or not its transition is legal.
C4_HistoryCapped ==
    /\ [](\A t \in DOMAIN tstore : Len(tstore[t]) <= billingStatusChangesMax)
    /\ [][(/\ reply'.op = "SetBillingStatus"
           /\ reply' # reply
           /\ PassesUpTo(7, reply'.token, reply'.req)
           /\ Len(tstore[reply'.token]) = billingStatusChangesMax) =>
              /\ reply'.err = CapError \/ reply'.err.code = "BackendError"
              /\ tstore' = tstore
         ]_vars

\* C4 witness: the history of proposal 1 is full and a request whose
\* transition is legal was refused for the cap.
C4_Witness ==
    /\ reply.op = "SetBillingStatus" /\ reply.token = 1
    /\ reply.err = CapError
    /\ Len(tstore[1]) = billingStatusChangesMax
    /\ reply.req.Status \in billingStatusChanges(Persisted(1)[Len(tstore[1])].Status)

ReasonError ==
    PluginError(ErrorCodeBillingStatusChangeNotAllowed,
                "must provide a reason when setting billing status to closed")

\* C5: every persisted change to closed has a reason, and a request to close
\* without a reason that passes the checks before it is refused with billing
\* status change not allowed, and nothing is written.
C5_ClosedHasReason ==
    /\ [](\A t \in DOMAIN tstore : \A i \in 1..Len(tstore[t]) :
             Persisted(t)[i].Status = BillingStatusClosed => Persisted(t)[i].Reason # "")
    /\ [][(/\ reply'.op = "SetBillingStatus"
           /\ PassesUpTo(4, reply'.token, reply'.req)
           /\ reply'.req.Status = BillingStatusClosed
           /\ reply'.req.Reason = "") =>
              /\ reply'.err = ReasonError
              /\ tstore' = tstore
         ]_vars

\* C5 witness: a signed request to close proposal 1 without a reason was
\* refused, on a proposal that has a closed change with a reason.
C5_Witness ==
    /\ reply.op = "SetBillingStatus" /\ reply.token = 1
    /\ reply.req # MalformedPayload
    /\ reply.req.Status = BillingStatusClosed /\ reply.req.Reason = ""
    /\ reply.err = ReasonError
    /\ Len(tstore[1]) = 1
    /\ Persisted(1)[1].Status = BillingStatusClosed

VoteError ==
    PluginError(ErrorCodeBillingStatusChangeNotAllowed,
                "setting billing status is allowed only if proposal vote was approved")

\* C6: a set billing status command succeeds only when the vote of the
\* proposal is approved; on every other vote status a request that passes the
\* checks of the payload is refused with billing status change not allowed
\* (or the vote summary could not be read), and no blob is persisted.
C6_OnlyApprovedVote ==
    [][reply'.op = "SetBillingStatus" =>
        /\ reply'.err = NoErr => votes[reply'.token] = VoteStatusApproved
        /\ (/\ votes[reply'.token] # VoteStatusApproved
            /\ PassesUpTo(5, reply'.token, reply'.req)) =>
               /\ reply'.err = VoteError \/ reply'.err = BackendError("voteSummary")
               /\ (arg.fail # "voteSummary") => reply'.err = VoteError
               /\ tstore' = tstore
      ]_vars

\* C6 witness: a valid request to complete proposal 1, whose vote has only
\* started, was refused for the vote and nothing is persisted.
C6_Witness ==
    /\ reply.op = "SetBillingStatus" /\ reply.token = 1
    /\ votes[1] = VoteStatusStarted
    /\ reply.req # MalformedPayload
    /\ reply.req.Status = BillingStatusCompleted
    /\ reply.req.Signature = GoodSignature("01", BillingStatusCompleted, reply.req.Reason)
    /\ reply.err = VoteError
    /\ tstore[1] = <<>>

RFPError ==
    PluginError(ErrorCodeBillingStatusChangeNotAllowed,
                "rfp proposals do not have a billing status")

\* The proposal is an RFP: its vote metadata has a deadline for submissions.
RFPBase(t) == records[t].VoteMD # NoVoteMD /\ records[t].VoteMD.LinkBy # 0

\* The proposal is a submission to an RFP.
RFPSubmission(t) ==
    /\ records[t].VoteMD # NoVoteMD
    /\ records[t].VoteMD.LinkBy = 0
    /\ records[t].VoteMD.LinkTo # ""

\* C7: an RFP proposal never has a persisted billing status change: every
\* set billing status command on it fails, with billing status change not
\* allowed when the payload passes its checks (or a backend error); a
\* submission to an RFP is not exempt: a request on an approved submission
\* that breaks no rule succeeds and persists a change.
C7_RFPHasNoHistory ==
    /\ [](\A t \in DOMAIN records : RFPBase(t) => tstore[t] = <<>>)
    /\ [][(reply'.op = "SetBillingStatus" /\ RFPBase(reply'.token)) =>
             /\ reply'.err # NoErr
             /\ PassesUpTo(5, reply'.token, reply'.req) =>
                   \/ reply'.err.code = ErrorCodeBillingStatusChangeNotAllowed
                   \/ reply'.err.code = "BackendError"
             /\ PassesUpTo(6, reply'.token, reply'.req) =>
                   \/ reply'.err = RFPError
                   \/ reply'.err.code = "BackendError"
             /\ tstore' = tstore
         ]_vars
    /\ [][(/\ reply'.op = "SetBillingStatus"
           /\ reply' # reply
           /\ RFPSubmission(reply'.token)
           /\ PassesUpTo(9, reply'.token, reply'.req)) =>
             \/ reply'.err.code = "BackendError" /\ tstore' = tstore
             \/ reply'.err = NoErr /\ Len(tstore'[reply'.token]) = Len(tstore[reply'.token]) + 1
         ]_vars

\* C7 witness: a valid request on the approved RFP proposal 1 was refused
\* because it is an RFP, and the proposal has no history.
C7_Witness ==
    /\ reply.op = "SetBillingStatus" /\ reply.token = 1
    /\ RFPBase(1)
    /\ votes[1] = VoteStatusApproved
    /\ reply.req # MalformedPayload
    /\ reply.req.Signature = GoodSignature("01", reply.req.Status, reply.req.Reason)
    /\ reply.err = RFPError
    /\ tstore[1] = <<>>

TransitionError ==
    PluginError(ErrorCodeBillingStatusChangeNotAllowed,
                "invalid billing status transition")

\* The billing status a request is measured against: active without history,
\* otherwise the status of the last change of the history sorted by timestamp.
CurrentBillingStatus(t) ==
    IF tstore[t] = <<>>
    THEN BillingStatusActive
    ELSE SliceStable(Persisted(t))[Len(tstore[t])].Status

\* C8: a request that passes every earlier check is accepted only if the
\* pair of the current and the requested status is in the table of allowed
\* transitions, the current status being active when the history is empty
\* and otherwise that of the last change of the history sorted by timestamp;
\* a pair that is not in the table is refused with billing status change not
\* allowed.
C8_TransitionChecked ==
    [][(reply'.op = "SetBillingStatus" /\ PassesUpTo(8, reply'.token, reply'.req)) =>
        LET legal == reply'.req.Status \in
                        billingStatusChanges(CurrentBillingStatus(reply'.token))
        IN
        /\ reply'.err = NoErr => legal
        /\ ~legal => reply'.err = TransitionError \/ reply'.err.code = "BackendError"
        /\ (~legal /\ arg.fail \in {"none", "save"}) => reply'.err = TransitionError
      ]_vars

\* C8 witness: proposal 1 has one change and a valid request for the status
\* it already has was refused for its transition.
C8_Witness ==
    /\ reply.op = "SetBillingStatus" /\ reply.token = 1
    /\ Len(tstore[1]) = 1
    /\ reply.req # MalformedPayload
    /\ reply.req.Status = Persisted(1)[1].Status
    /\ reply.err = TransitionError

\* C9: the history only grows at its end.  A step changes the store exactly
\* when it is a successful set billing status command, and then it appends
\* to the history of the command token one change that carries the token,
\* status, reason, public key and signature of the request and the timestamp
\* and receipt of the reply; every other history is left alone, and the two
\* read commands change no history.
C9_AppendOnly ==
    [][/\ (tstore' # tstore) <=>
             (reply' # reply /\ reply'.op = "SetBillingStatus" /\ reply'.err = NoErr)
       /\ (tstore' # tstore) =>
             /\ reply'.val.Timestamp = now
             /\ reply'.val.Receipt = HexEncode(SignMessage(reply'.req.Signature))
             /\ tstore' = [tstore EXCEPT ![reply'.token] =
                   Append(@, billingStatusEncode(
                       [Token |-> reply'.req.Token,
                        Status |-> reply'.req.Status,
                        Reason |-> reply'.req.Reason,
                        PublicKey |-> reply'.req.PublicKey,
                        Signature |-> reply'.req.Signature,
                        Timestamp |-> reply'.val.Timestamp,
                        Receipt |-> reply'.val.Receipt]))]
       /\ \A t \in DOMAIN tstore :
             /\ Len(tstore'[t]) >= Len(tstore[t])
             /\ \A i \in 1..Len(tstore[t]) : tstore'[t][i] = tstore[t][i]
      ]_vars

\* C9 witness: the second change of proposal 1 was just appended behind the
\* first one, and the reply carries its timestamp and receipt.
C9_Witness ==
    /\ reply.op = "SetBillingStatus" /\ reply.token = 1 /\ reply.err = NoErr
    /\ Len(tstore[1]) = 2
    /\ Persisted(1)[2].Timestamp = reply.val.Timestamp
    /\ Persisted(1)[2].Receipt = reply.val.Receipt
    /\ Persisted(1)[2].Status = reply.req.Status
    /\ Persisted(1)[1].Status # Persisted(1)[2].Status

\* The result of a derivation without error.
Derived(s) == [s |-> s, err |-> NoErr]

\* C10: proposalStatus follows its decision table.  An unvetted record is
\* unvetted, unvetted abandoned or unvetted censored by its status, a vetted
\* record that is archived or censored is abandoned or censored, whatever the
\* vote status, the vote metadata and the billing history; a vetted public
\* record is under review, vote authorized, vote started or rejected by its
\* vote status, whatever the billing history.
C10_DecisionTable ==
    res # NoResult =>
       /\ (arg.state = StateUnvetted /\ arg.status = StatusUnreviewed) =>
             res = Derived(PropStatusUnvetted)
       /\ (arg.state = StateUnvetted /\ arg.status = StatusArchived) =>
             res = Derived(PropStatusUnvettedAbandoned)
       /\ (arg.state = StateUnvetted /\ arg.status = StatusCensored) =>
             res = Derived(PropStatusUnvettedCensored)
       /\ (arg.state = StateVetted /\ arg.status = StatusArchived) =>
             res = Derived(PropStatusAbandoned)
       /\ (arg.state = StateVetted /\ arg.status = StatusCensored) =>
             res = Derived(PropStatusCensored)
       /\ (arg.state = StateVetted /\ arg.status = StatusPublic) =>
             /\ arg.voteStatus = VoteStatusUnauthorized => res = Derived(PropStatusUnderReview)
             /\ arg.voteStatus = VoteStatusAuthorized => res = Derived(PropStatusVoteAuthorized)
             /\ arg.voteStatus = VoteStatusStarted => res = Derived(PropStatusVoteStarted)
             /\ arg.voteStatus = VoteStatusRejected => res = Derived(PropStatusRejected)

\* C10 witness: a vetted public record whose vote was rejected is rejected,
\* although its billing history ends with a closed change.
C10_Witness ==
    /\ res = Derived(PropStatusRejected)
    /\ arg.state = StateVetted /\ arg.status = StatusPublic
    /\ arg.voteStatus = VoteStatusRejected
    /\ Len(arg.bscs) = 2
    /\ arg.bscs[2].Status = BillingStatusClosed

\* The arguments are those of an approved, vetted and public proposal.
ApprovedArgs ==
    /\ arg.state = StateVetted /\ arg.status = StatusPublic
    /\ arg.voteStatus = VoteStatusApproved

\* C11: for an approved proposal that is no RFP the derived status is active
\* when the billing history is empty, and otherwise active, closed or
\* completed as the status of the last change of the history says, the later
\* one in the order given when timestamps are equal; a last change with any
\* other status gives an error and the invalid status.
C11_ApprovedFollowsLastChange ==
    (res # NoResult /\ ApprovedArgs /\ ~(arg.voteMD # NoVoteMD /\ arg.voteMD.LinkBy # 0)) =>
        IF arg.bscs = <<>>
        THEN res = Derived(PropStatusActive)
        ELSE LET last == arg.bscs[Len(arg.bscs)].Status IN
             CASE last = BillingStatusActive -> res = Derived(PropStatusActive)
               [] last = BillingStatusClosed -> res = Derived(PropStatusClosed)
               [] last = BillingStatusCompleted -> res = Derived(PropStatusCompleted)
               [] OTHER -> res.err # NoErr /\ res.s = PropStatusInvalid

\* C11 witness: a closed and a completed change of the same timestamp, the
\* completed one later in the order given, derive completed.
C11_Witness ==
    /\ res = Derived(PropStatusCompleted)
    /\ ApprovedArgs /\ arg.voteMD = VoteMD(0, "")
    /\ Len(arg.bscs) = 2
    /\ arg.bscs[1].Status = BillingStatusClosed
    /\ arg.bscs[2].Status = BillingStatusCompleted
    /\ arg.bscs[1].Timestamp = arg.bscs[2].Timestamp

\* C12: for an approved, vetted and public proposal whose vote metadata makes
\* it an RFP (LinkBy is set) the derived status is approved for every billing
\* history, the empty one and those that end with a closed, completed or
\* invalid change included.
C12_RFPIsApproved ==
    (res # NoResult /\ ApprovedArgs /\ arg.voteMD # NoVoteMD /\ arg.voteMD.LinkBy # 0) =>
        res = Derived(PropStatusApproved)

\* C12 witness: an RFP whose history ends with a change of invalid status is
\* approved.
C12_Witness ==
    /\ res = Derived(PropStatusApproved)
    /\ ApprovedArgs /\ arg.voteMD = VoteMD(1, "")
    /\ Len(arg.bscs) = 2
    /\ arg.bscs[2].Status = BillingStatusInvalid

\* The state, status and vote status are a combination the decision table
\* of proposalStatus does not have.
OutsideTable ==
    \/ arg.state = StateUnvetted /\ arg.status = StatusPublic
    \/ arg.state = StateVetted /\ arg.status = StatusUnreviewed
    \/ /\ arg.state = StateVetted /\ arg.status = StatusPublic
       /\ arg.voteStatus = VoteStatusInvalid

\* C13: for a combination outside the decision table proposalStatus returns
\* an error together with the invalid status, never a valid proposal status;
\* the summary of such a proposal returns that error and leaves the cache
\* as it was, empty.
C13_OutsideTableIsError ==
    OutsideTable =>
        /\ res # NoResult =>
              /\ res.s = PropStatusInvalid
              /\ res.err = InternalError("couldn't determine proposal status")
        /\ reply.op = "Summary" =>
              /\ reply.err = InternalError("couldn't determine proposal status")
              /\ reply.val = Nil
        /\ cacheData = EmptyCache
        /\ cacheEntries = <<>>

\* C13 witness: proposalStatus and the summary both failed on a vetted and
\* public proposal whose vote status is invalid.
C13_Witness ==
    /\ arg.state = StateVetted /\ arg.status = StatusPublic
    /\ arg.voteStatus = VoteStatusInvalid
    /\ res # NoResult /\ res.s = PropStatusInvalid
    /\ reply.op = "Summary" /\ reply.token = 1
    /\ reply.err = InternalError("couldn't determine proposal status")
    /\ cacheEntries = <<>>

\* The three billing statuses that can be set.
SettableStatuses == {BillingStatusActive, BillingStatusClosed, BillingStatusCompleted}

\* The six ordered pairs of distinct settable statuses.
SixPairs == {p \in SettableStatuses \X SettableStatuses : p[1] # p[2]}

\* C14: the table of transitions permits exactly the six ordered pairs of
\* distinct statuses among active, closed and completed, and nothing from or
\* to the invalid status; a request that passes every earlier check, with no
\* backend failure, is accepted exactly when the pair of the current and the
\* requested status is one of the six.
C14_ExactlySixPairs ==
    [][/\ \A from \in BillingStatuses, to \in BillingStatuses :
             (to \in billingStatusChanges(from)) <=> (<<from, to>> \in SixPairs)
       /\ (/\ reply'.op = "SetBillingStatus"
           /\ PassesUpTo(8, reply'.token, reply'.req)
           /\ arg.fail = "none") =>
              ((reply'.err = NoErr) <=>
                  (<<CurrentBillingStatus(reply'.token), reply'.req.Status>> \in SixPairs))
      ]_vars

\* C14 witness: proposal 1 was completed and a request to set it back to
\* active was accepted.
C14_Witness ==
    /\ reply.op = "SetBillingStatus" /\ reply.token = 1 /\ reply.err = NoErr
    /\ Len(tstore[1]) = 2
    /\ Persisted(1)[1].Status = BillingStatusCompleted
    /\ Persisted(1)[2].Status = BillingStatusActive

\* The last request passed every check before the transition check and asks
\* for the billing status the proposal has.
SelfTransition ==
    /\ reply'.op = "SetBillingStatus"
    /\ PassesUpTo(8, reply'.token, reply'.req)
    /\ arg.fail = "none"
    /\ reply'.req.Status = CurrentBillingStatus(reply'.token)

\* C15 as stated: a request for the status the proposal already has passes
\* the transition check.
C15_SelfTransitionLegal ==
    [][SelfTransition => reply'.err # TransitionError]_vars

\* C15, amended: a request for the billing status the proposal already has
\* fails the transition check with billing status change not allowed, and
\* nothing is persisted; active on an approved proposal with an empty
\* history is such a request.
C15_SelfTransitionRefused ==
    [][SelfTransition => (reply'.err = TransitionError /\ tstore' = tstore)]_vars

\* C15 witness: a valid request to set the approved proposal 1, which has no
\* history, to active was refused for its transition.
C15_Witness ==
    /\ reply.op = "SetBillingStatus" /\ reply.token = 1
    /\ votes[1] = VoteStatusApproved
    /\ tstore[1] = <<>>
    /\ reply.req # MalformedPayload
    /\ reply.req.Status = BillingStatusActive
    /\ reply.err = TransitionError
    /\ arg.fail = "none"

\* The changes of h that have timestamp ts, in the order of h.
WithTimestamp(h, ts) ==
    LET Test(c) == c.Timestamp = ts IN SelectSeq(h, Test)

\* h sorted by timestamp, the changes of one timestamp in the order of h.
RECURSIVE FromTimestamp(_, _)
FromTimestamp(h, ts) ==
    IF ts > MaxTime
    THEN <<>>
    ELSE WithTimestamp(h, ts) \o FromTimestamp(h, ts + 1)

\* C16: the billing status changes command returns every persisted change
\* of the token once, by timestamp that does not decrease, whatever the
\* order the backend returns the blobs in, and the changes of one timestamp
\* in the order of the backend.
C16_ChangesSortedStable ==
    (/\ reply.op = "BillingStatusChanges"
     /\ \A i \in 1..Len(tstore[reply.token]) : tstore[reply.token][i] \notin CorruptBlobs) =>
        /\ reply.err = NoErr
        /\ Len(reply.val) = Len(tstore[reply.token])
        /\ \A i \in 1..(Len(reply.val) - 1) :
              reply.val[i].Timestamp <= reply.val[i + 1].Timestamp
        /\ reply.val = FromTimestamp(Persisted(reply.token), 1)

\* C16 witness: the backend holds a newer change in front of an older one,
\* and the command returned the older one first.
C16_Witness ==
    /\ reply.op = "BillingStatusChanges" /\ reply.token = 1 /\ reply.err = NoErr
    /\ Len(tstore[1]) = 2
    /\ tstore[1][1] \notin CorruptBlobs /\ tstore[1][2] \notin CorruptBlobs
    /\ Persisted(1)[1].Timestamp > Persisted(1)[2].Timestamp
    /\ reply.val = <<Persisted(1)[2], Persisted(1)[1]>>

\* The error of decoding the corrupt blob be.
CorruptionError(be) ==
    IF be.DataHint # billingStatusEncode(
                         AcceptedChange("01", BillingStatusActive, "done", 1)).DataHint
    THEN DecodeError("unexpected data descriptor")
    ELSE DecodeError("data is not coherent")

\* The first corrupt blob of a token, in the order of the backend.
FirstCorrupt(t) ==
    tstore[t][CHOOSE i \in 1..Len(tstore[t]) :
                 /\ tstore[t][i] \in CorruptBlobs
                 /\ \A j \in 1..(i - 1) : tstore[t][j] \notin CorruptBlobs]

HasCorrupt(t) == \E i \in 1..Len(tstore[t]) : tstore[t][i] \in CorruptBlobs

\* A summary of token t reads its billing history: no proposal status is
\* cached, and either a vote status is cached or the proposal is vetted,
\* public and approved.
SummaryReadsHistory(t) ==
    LET d == cacheData[HexEncodeToString(t)] IN
    /\ d = NoData \/ d.proposalStatus = Nil
    /\ \/ d # NoData /\ d.voteStatus # Nil
       \/ /\ records[t].State = StateVetted /\ records[t].Status = StatusPublic
          /\ votes[t] = VoteStatusApproved

\* C17: when a stored blob of a token fails to decode, for its descriptor or
\* its digest, every command that reads the history of the token fails with
\* the error of the first such blob: the billing status changes command, a
\* set billing status command that passes the checks before the history is
\* read, and a summary on a path that reads it; no list and no status is
\* returned, and the store and the cache stay as they were.
C17_CorruptBlobFailsReaders ==
    [][(reply' # reply /\ HasCorrupt(reply'.token)) =>
        LET t == reply'.token
            reads == \/ reply'.op = "BillingStatusChanges"
                     \/ /\ reply'.op = "SetBillingStatus"
                        /\ PassesUpTo(7, t, reply'.req)
                     \/ reply'.op = "Summary" /\ SummaryReadsHistory(t)
        IN reads =>
              /\ reply'.err = CorruptionError(FirstCorrupt(t))
              /\ reply'.val = Nil
              /\ tstore' = tstore
              /\ cacheData' = cacheData
              /\ cacheEntries' = cacheEntries
      ]_vars

\* C17 witness: the second blob of proposal 1 does not match its digest, the
\* vote status of the proposal is cached, and its summary failed for the
\* digest.
C17_Witness ==
    /\ reply.op = "Summary" /\ reply.token = 1
    /\ reply.err = DecodeError("data is not coherent")
    /\ Len(tstore[1]) = 2
    /\ tstore[1][1] \notin CorruptBlobs
    /\ tstore[1][2] \in CorruptBlobs
    /\ cacheData["01"] = CacheDataOf(Nil, VoteStatusApproved)

\* The blob of the arguments has been encoded and decoded.
Decoded == "be" \in DOMAIN res /\ res.out # NoResult

\* C18: decoding the encoding of a billing status change gives the change
\* back, for every change whose strings are valid UTF-8; decoding a blob
\* whose data is not the data its digest was computed over fails for the
\* digest, and decoding a blob with another descriptor fails for the
\* descriptor, also when the digest does not match: the descriptor is
\* checked first.
C18_CodecRoundTrip ==
    Decoded =>
       /\ (arg.damage = "none" /\ arg.bsc.Reason # InvalidUTF8) =>
             /\ res.out.err = NoErr
             /\ res.out.bsc = arg.bsc
       /\ arg.damage = "data" => res.out.err = DecodeError("data is not coherent")
       /\ arg.damage \in {"descriptor", "both"} =>
             res.out.err = DecodeError("unexpected data descriptor")

\* C18 witness: a closed change with a reason came back from its blob, which
\* is not the change itself.
C18_Witness ==
    /\ Decoded
    /\ arg.damage = "none"
    /\ arg.bsc.Status = BillingStatusClosed /\ arg.bsc.Reason = "done"
    /\ res.out = [bsc |-> arg.bsc, err |-> NoErr]
    /\ res.be.Data # arg.bsc
    /\ res.be.Digest = HexEncode(Digest(JsonMarshal(arg.bsc)))

\* The tokens the cache holds.
CachedTokens == {t \in HexTokens : cacheData[t] # NoData}

\* C19: under every interleaving of concurrent summaries the cache holds at
\* most piCacheLimit tokens; a step that inserts a new token while the cache
\* holds piCacheLimit tokens evicts exactly one entry, the one inserted
\* earliest, and a step that inserts a new token below the limit evicts
\* nothing.
C19_CacheBounded ==
    /\ [](Cardinality(CachedTokens) <= piCacheLimit /\ Len(cacheEntries) <= piCacheLimit)
    /\ [][\A t \in HexTokens :
            (cacheData[t] = NoData /\ cacheData'[t] # NoData) =>
               IF Cardinality(CachedTokens) = piCacheLimit
               THEN /\ cacheEntries' = Append(Tail(cacheEntries), t)
                    /\ cacheData'[Head(cacheEntries)] = NoData
                    /\ \A u \in HexTokens \ {t, Head(cacheEntries)} :
                          cacheData'[u] = cacheData[u]
               ELSE /\ cacheEntries' = Append(cacheEntries, t)
                    /\ \A u \in HexTokens \ {t} : cacheData'[u] = cacheData[u]
         ]_vars

\* C19 witness: a third token was written while two were cached, and the
\* cache holds two tokens, the first one written not among them.
C19_Witness ==
    /\ Len(res) = 3
    /\ \A i \in 1..3 : res[i].kind = "insert"
    /\ Cardinality(CachedTokens) = piCacheLimit
    /\ res[1].token \notin CachedTokens
    /\ res[3].token = "01"

\* The tokens of the inserts of the log, in their order.
RECURSIVE Inserted(_)
Inserted(log) ==
    IF log = <<>>
    THEN <<>>
    ELSE IF Head(log).kind = "insert"
         THEN <<Head(log).token>> \o Inserted(Tail(log))
         ELSE Inserted(Tail(log))

\* The last k elements of a sequence.
LastOf(seq, k) == IF Len(seq) <= k THEN seq ELSE SubSeq(seq, Len(seq) - k + 1, Len(seq))

\* C20: eviction is first in, first out by insertion and not by use: the
\* cache holds the tokens inserted last, in the order of their insertion,
\* whatever lookups and overwrites of cached tokens happened in between; so
\* after one more distinct token than the limit was inserted into the empty
\* cache the first one is absent and the others are present.
C20_EvictionIsFIFO ==
    /\ cacheEntries = LastOf(Inserted(res), piCacheLimit)
    /\ CachedTokens = {cacheEntries[i] : i \in 1..Len(cacheEntries)}
    /\ LET ins == Inserted(res) IN
       (/\ Len(ins) = piCacheLimit + 1
        /\ Cardinality({ins[i] : i \in 1..Len(ins)}) = piCacheLimit + 1) =>
           /\ ins[1] \notin CachedTokens
           /\ \A i \in 2..(piCacheLimit + 1) : ins[i] \in CachedTokens

\* C20 witness: the first token was overwritten after the second one was
\* inserted, and the third insert evicted it all the same.
C20_Witness ==
    /\ Len(res) = 4
    /\ res[1].kind = "insert" /\ res[2].kind = "insert"
    /\ res[3] = [kind |-> "overwrite", token |-> res[1].token]
    /\ res[4].kind = "insert"
    /\ res[1].token # res[2].token
    /\ res[4].token \notin {res[1].token, res[2].token}
    /\ cacheEntries = <<res[2].token, res[4].token>>
    /\ res[1].token \notin CachedTokens

\* The proposal statuses that never change again.
TerminalStatuses ==
    {PropStatusUnvettedAbandoned, PropStatusUnvettedCensored, PropStatusAbandoned,
     PropStatusCensored, PropStatusApproved, PropStatusRejected}

\* The proposal statuses of an approved proposal that is billed.
QuasiTerminalStatuses == {PropStatusActive, PropStatusCompleted, PropStatusClosed}

\* The proposal statuses that can still change.
TransientStatuses ==
    {PropStatusUnvetted, PropStatusUnderReview, PropStatusVoteAuthorized,
     PropStatusVoteStarted}

\* C21: in every reachable state of the cache a stored proposal status is
\* one of the six terminal statuses and a stored vote status is approved; no
\* transient or quasi-terminal proposal status and no other vote status is
\* cached.
C21_OnlyTerminalCached ==
    \A t \in HexTokens :
        cacheData[t] # NoData =>
            /\ cacheData[t].proposalStatus \in TerminalStatuses \cup {Nil}
            /\ cacheData[t].voteStatus \in {VoteStatusApproved, Nil}
            /\ cacheData[t] # CacheDataOf(Nil, Nil)

\* C21 witness: the cache holds a terminal proposal status for one proposal
\* and the approved vote status of another, whose last summary was closed.
C21_Witness ==
    /\ cacheData["02"] = CacheDataOf(PropStatusRejected, Nil)
    /\ cacheData["01"] = CacheDataOf(Nil, VoteStatusApproved)
    /\ reply.op = "Summary" /\ reply.token = 1 /\ reply.val = PropStatusClosed

\* C22: a summary that finds nothing in the cache for its token and
\* succeeds writes the cache by the tier of its result: a terminal result is
\* stored as the proposal status of the token, a result active, completed or
\* closed stores only the vote status approved, never the proposal status,
\* and a transient result leaves the cache as it was.
C22_CacheWriteByTier ==
    [][\A token \in DOMAIN records, fail \in Failures :
          LET tokenStr == HexEncodeToString(token) IN
          (/\ DoSummary(token, fail)
           /\ cacheData[tokenStr] = NoData
           /\ reply'.err = NoErr) =>
              CASE reply'.val \in TerminalStatuses ->
                      /\ cacheData'[tokenStr] = CacheDataOf(reply'.val, Nil)
                      /\ cacheEntries'[Len(cacheEntries')] = tokenStr
                 [] reply'.val \in QuasiTerminalStatuses ->
                      /\ cacheData'[tokenStr] = CacheDataOf(Nil, VoteStatusApproved)
                      /\ cacheEntries'[Len(cacheEntries')] = tokenStr
                 [] reply'.val \in TransientStatuses ->
                      /\ cacheData' = cacheData
                      /\ cacheEntries' = cacheEntries
                 [] OTHER -> FALSE
      ]_vars

\* C22 witness: the only entry of the cache is the one a summary of the
\* approved proposal wrote, the approved vote status and no proposal status,
\* and the summary returned completed.
C22_Witness ==
    /\ reply.op = "Summary" /\ reply.token = 1 /\ reply.err = NoErr
    /\ reply.val = PropStatusCompleted
    /\ cacheEntries = <<"01">>
    /\ cacheData["01"] = CacheDataOf(Nil, VoteStatusApproved)

\* C23: when the cache holds a proposal status for the token, a summary
\* returns exactly that status, makes no backend call (it succeeds whichever
\* backend call is failing: the record, the vote summary or the blobs) and
\* leaves the contents and the order of the cache as they were.
C23_CachedStatusReturned ==
    [][\A token \in DOMAIN records, fail \in Failures :
          LET d == cacheData[HexEncodeToString(token)] IN
          (/\ DoSummary(token, fail)
           /\ d # NoData
           /\ d.proposalStatus # Nil) =>
              /\ reply'.err = NoErr
              /\ reply'.val = d.proposalStatus
              /\ cacheData' = cacheData
              /\ cacheEntries' = cacheEntries
              /\ tstore' = tstore
      ]_vars

\* C23 witness: a summary returned rejected, the status the cache held for
\* its token: the token was cached before the other one was, and the other
\* one was summarised before this summary.
C23_Witness ==
    /\ reply.op = "Summary" /\ reply.token = 2 /\ reply.err = NoErr
    /\ reply.val = PropStatusRejected
    /\ cacheData["02"] = CacheDataOf(PropStatusRejected, Nil)
    /\ cacheEntries = <<"02", "01">>

\* C24: the cache lock is held only during a lookup or a write of the
\* cache: an invocation that holds it is inside cacheDataGet or a setter,
\* no invocation holds it while it performs or waits on a backend call, at
\* most one invocation holds it, and an invocation blocked in a backend call
\* does not keep another one from taking the lock.
C24_NoLockAcrossBackend ==
    \A p \in Procs :
        /\ arg[p].lock => arg[p].pc \in {"get", "write"}
        /\ arg[p].lock => \A q \in Procs \ {p} : ~arg[q].lock
        /\ arg[p].pc \in {"fast", "slow", "derive"} =>
              /\ ~arg[p].lock
              /\ \A q \in Procs \ {p} :
                    (arg[q].pc = "get" /\ \A r \in Procs : ~arg[r].lock) =>
                        ENABLED CacheLock(q)

\* C24 witness: one invocation is in the backend calls of the slow path
\* while the other one holds the cache lock inside a setter.
C24_Witness ==
    \E p, q \in Procs :
        /\ arg[p].pc = "slow"
        /\ arg[q].pc = "write" /\ arg[q].lock

\* Another invocation than p is between its lookup, which missed, and its
\* call of a setter for the token of p, and the setter will find the entry
\* and overwrite one of its fields in place.
WriterOfEntry(p) ==
    \E q \in Procs \ {p} :
        /\ arg[q].pc = "write"
        /\ arg[q].token = arg[p].token
        /\ arg[q].s \in TerminalStatuses \cup QuasiTerminalStatuses
        /\ cacheData[HexEncodeToString(arg[q].token)] # NoData

\* C29: no field of a cache entry is read by one invocation while another
\* invocation can write it: an invocation that is about to read the fields of
\* the entry it obtained holds the cache lock, or no other invocation is
\* about to overwrite that entry.
C29_FieldsReadUnderLock ==
    \A p \in Procs :
        (arg[p].pc = "inspect" /\ arg[p].d # NoData) =>
            \/ arg[p].lock
            \/ ~WriterOfEntry(p)

\* The proposal status of the token is terminal.
TerminalToken(token) == SummaryDerive(token, "none").s \in TerminalStatuses

\* C30 as claimed: once a summary has cached a terminal status for a
\* token, no summary of that token called later runs the slow path.
C30_NeverRecomputed ==
    \A p \in Procs :
        (arg[p].pc = "slow" /\ arg[p].seen) => ~TerminalToken(arg[p].token)

\* C30: a terminal status cached for a token is recomputed by a summary
\* called after the write only when the entry was evicted in between: at
\* least piCacheLimit tokens were inserted after it.
C30_RecomputedAfterEviction ==
    \A p \in Procs :
        (arg[p].pc = "slow" /\ arg[p].seen /\ TerminalToken(arg[p].token)) =>
            LET ins == Inserted(res) IN
            \E i \in 1..Len(ins) :
                /\ ins[i] = HexEncodeToString(arg[p].token)
                /\ Len(ins) - i >= piCacheLimit

\* C30 witness: the rejected proposal was cached first, two other tokens
\* were inserted after it, and a summary of it called after that is in the
\* slow path.
C30_Witness ==
    /\ Len(res) = 3
    /\ res[1] = [kind |-> "insert", token |-> "02"]
    /\ cacheData["02"] = NoData
    /\ \E p \in Procs : arg[p].pc = "slow" /\ arg[p].seen /\ arg[p].token = 2

\* C27: with the writes of a token serialized and the clock not running
\* backwards, in every reachable billing status history no two adjacent
\* changes have the same status and the first change is never active, both
\* in the order the changes were persisted and in the order of their
\* timestamps: each persisted change is a real change of status.
C27_EveryChangeChanges ==
    \A t \in DOMAIN tstore :
        LET h == Persisted(t)
            sorted == SliceStable(h)
        IN
        /\ \A i \in 1..Len(h) : h[i].Timestamp <= now
        /\ \A i \in 1..(Len(h) - 1) : h[i].Timestamp <= h[i + 1].Timestamp
        /\ sorted = h
        /\ Len(h) >= 1 => h[1].Status # BillingStatusActive
        /\ \A i \in 1..(Len(h) - 1) : h[i].Status # h[i + 1].Status

\* C27 witness: a proposal was closed and set back to active later.
C27_Witness ==
    /\ Len(tstore[1]) = 2
    /\ Persisted(1)[1].Status = BillingStatusClosed
    /\ Persisted(1)[2].Status = BillingStatusActive
    /\ Persisted(1)[1].Timestamp < Persisted(1)[2].Timestamp

\* C25: when the backend runs the write commands of a token one after the
\* other, every persisted change was checked against the history made of
\* exactly the changes persisted before it, the history stays within the
\* maximum and no two adjacent changes have the same status.  (Without that,
\* two concurrent commands read the same history, both pass and both
\* persist: the witness.)
C25_SerializedWritesValidated ==
    res.serialized =>
        \A t \in DOMAIN tstore :
            /\ Len(res.validated[t]) = Len(tstore[t])
            /\ \A i \in 1..Len(tstore[t]) : res.validated[t][i] = i - 1
            /\ Len(tstore[t]) <= billingStatusChangesMax
            /\ \A i \in 1..(Len(tstore[t]) - 1) :
                  Persisted(t)[i].Status # Persisted(t)[i + 1].Status

\* C25 witness: the backend does not serialize, and the history of a token
\* holds two adjacent changes of the same status, both checked against the
\* same history, the empty one.
C25_Witness ==
    /\ ~res.serialized
    /\ Len(tstore[1]) = 2
    /\ res.validated[1] = <<0, 0>>
    /\ Persisted(1)[1].Status = BillingStatusCompleted
    /\ Persisted(1)[2].Status = BillingStatusCompleted

\* What a summary answers from the cache entry d of a token: the status and
\* the error of the fast paths.
AnswerFromCache(token, d) ==
    IF d.proposalStatus # Nil
    THEN [s |-> d.proposalStatus, err |-> NoErr]
    ELSE LET out == SummaryVoteStatusCached(token, "none") IN
         [s |-> out.s, err |-> out.err]

\* What the slow path answers on the backend facts as they are now.
AnswerFromBackend(token) ==
    LET out == SummaryDerive(token, "none") IN [s |-> out.s, err |-> out.err]

\* C26: the summary with the cache equals the summary without it.  With
\* the record and the vote of a proposal not moving once it is censored or
\* abandoned or its vote has ended, in every state reached by interleaved
\* summaries and set billing status commands the answer from the cache, for
\* the entry the cache holds and for the entry an invocation has looked up
\* and is about to answer from, is the answer the slow path would give on
\* the backend facts of that state.
C26_CacheHitEqualsSlowPath ==
    /\ \A t \in DOMAIN records :
          LET d == cacheData[HexEncodeToString(t)] IN
          d # NoData => AnswerFromCache(t, d) = AnswerFromBackend(t)
    /\ \A p \in Procs :
          (arg[p].pc \in {"inspect", "fast"} /\ arg[p].d # NoData) =>
              AnswerFromCache(arg[p].token, arg[p].d) = AnswerFromBackend(arg[p].token)

\* C26 witness: an invocation is about to answer from the cached vote
\* status of a proposal that was closed after the vote status was cached.
C26_Witness ==
    \E p \in Procs :
        /\ arg[p].pc = "fast"
        /\ arg[p].d = CacheDataOf(Nil, VoteStatusApproved)
        /\ Len(tstore[1]) = 1
        /\ Persisted(1)[1].Status = BillingStatusClosed
        /\ AnswerFromBackend(1).s = PropStatusClosed
        /\ reply.op = "SetBillingStatus" /\ reply.err = NoErr

\* C28: a cache entry holds at most one of a proposal status and a vote
\* status, in every reachable state, also when concurrent summaries of one
\* token both missed the cache and both wrote it.
C28_OneFieldPerEntry ==
    \A t \in HexTokens :
        cacheData[t] # NoData =>
            \/ cacheData[t].proposalStatus = Nil
            \/ cacheData[t].voteStatus = Nil

\* C28 witness: two summaries of one token both missed the cache, the
\* second write found the entry of the first and overwrote it in place, and
\* the entry holds the vote status alone.
C28_Witness ==
    /\ Len(res) >= 2
    /\ res[1] = [kind |-> "insert", token |-> "01"]
    /\ res[2] = [kind |-> "overwrite", token |-> "01"]
    /\ cacheData["01"] = CacheDataOf(Nil, VoteStatusApproved)

\* C31: a setter called for a token that is in the cache overwrites its
\* field of the entry in place: the cached tokens, their order and their
\* number stay as they were, the other field and the other entries are
\* untouched and nothing is evicted, also when the cache is full.
C31_OverwriteInPlace ==
    [][\A p \in Procs :
          LET tokenStr == HexEncodeToString(arg[p].token)
              d == cacheData[tokenStr]
          IN
          (/\ SummaryWrite(p)
           /\ arg[p].s \in TerminalStatuses \cup QuasiTerminalStatuses
           /\ d # NoData) =>
              /\ cacheEntries' = cacheEntries
              /\ CachedTokens' = CachedTokens
              /\ \A u \in HexTokens \ {tokenStr} : cacheData'[u] = cacheData[u]
              /\ cacheData'[tokenStr] =
                    IF arg[p].s \in TerminalStatuses
                    THEN [d EXCEPT !.proposalStatus = arg[p].s]
                    ELSE [d EXCEPT !.voteStatus = arg[p].voteStatus]
      ]_vars

\* C31 witness: the cache is full, the vote status of its older entry was
\* overwritten by the write made last, and both entries are still there in
\* the order of their insertion.
C31_Witness ==
    /\ Len(res) = 3
    /\ res[1] = [kind |-> "insert", token |-> "01"]
    /\ res[2].kind = "insert"
    /\ res[3] = [kind |-> "overwrite", token |-> "01"]
    /\ Len(cacheEntries) = piCacheLimit
    /\ cacheEntries = <<"01", res[2].token>>
    /\ cacheData["01"] = CacheDataOf(Nil, VoteStatusApproved)

\* C32: when the cache holds a vote status and no proposal status for the
\* token, Summary reads the billing history and nothing else: it answers
\* whether or not the record and the vote summary can be fetched, it fails
\* only when the history cannot be read, its status is decided by the last
\* change of the history alone (active when there is none), and the cache
\* and the store are left as they were.
C32_VoteStatusCachedReadsHistoryOnly ==
    [][\A token \in DOMAIN records, fail \in Failures :
          LET d == cacheData[HexEncodeToString(token)]
              h == Persisted(token)
          IN
          (/\ DoSummary(token, fail)
           /\ d # NoData
           /\ d.proposalStatus = Nil
           /\ d.voteStatus # Nil) =>
              /\ cacheData' = cacheData
              /\ cacheEntries' = cacheEntries
              /\ tstore' = tstore
              /\ IF fail = "blobs"
                 THEN reply'.err = BackendError("blobs")
                 ELSE /\ reply'.err = NoErr
                      /\ reply'.val =
                            IF Len(h) = 0 THEN PropStatusActive
                            ELSE CASE h[Len(h)].Status = BillingStatusClosed ->
                                         PropStatusClosed
                                   [] h[Len(h)].Status = BillingStatusCompleted ->
                                         PropStatusCompleted
                                   [] OTHER -> PropStatusActive
      ]_vars

\* C32 witness: the vote status of proposal 1 was cached before proposal 2
\* was, proposal 1 has one billing status change, and the last command is a
\* Summary of proposal 1 that reports it closed.
C32_Witness ==
    /\ cacheEntries = <<"01", "02">>
    /\ cacheData["01"] = CacheDataOf(Nil, VoteStatusApproved)
    /\ reply.op = "Summary"
    /\ reply.token = 1
    /\ reply.err = NoErr
    /\ reply.val = PropStatusClosed
    /\ Len(tstore[1]) = 1

(***************************************************************************)
(* SpecEvict: SetBillingStatus and Summary, one command at a time, on      *)
(* three proposals, one more than the cache holds.  Proposal 1 is          *)
(* approved, proposal 2 rejected, proposal 3 abandoned or under review.    *)
(***************************************************************************)
InitEvict ==
    /\ \E p3 \in {Profile(StateVetted, StatusArchived, VoteMD(0, ""), VoteStatusInvalid),
                  Profile(StateVetted, StatusPublic, VoteMD(0, ""), VoteStatusUnauthorized)} :
          LET w == [t \in AllTokens |->
                      CASE t = 1 -> Profile(StateVetted, StatusPublic, VoteMD(0, ""),
                                            VoteStatusApproved)
                        [] t = 2 -> Profile(StateVetted, StatusPublic, VoteMD(0, ""),
                                            VoteStatusRejected)
                        [] OTHER -> p3]
          IN records = RecordsOf(w) /\ votes = VotesOf(w)
    /\ tstore = [t \in AllTokens |-> <<>>]
    /\ now = 1
    /\ cacheData = EmptyCache
    /\ cacheEntries = <<>>
    /\ reply = NoReply
    /\ arg = Nil
    /\ res = Nil

NextEvict ==
    \/ SetBillingStatusCmd
    \/ SummaryCmd

SpecEvict == InitEvict /\ [][NextEvict]_vars

\* C33: SetBillingStatus leaves the cache alone: after a call, whether it
\* saved a change or failed, the cached entries and their order are what
\* they were (the command of a step is the one its reply names).  An entry
\* leaves the cache in one way only: it is the oldest entry of a full cache
\* and a Summary inserts a token that was not cached.
C33_SetBillingStatusLeavesCache ==
    [][/\ reply'.op = "SetBillingStatus" =>
             /\ cacheData' = cacheData
             /\ cacheEntries' = cacheEntries
       /\ \A t \in HexTokens :
             (cacheData[t] # NoData /\ cacheData'[t] = NoData) =>
                 /\ reply'.op = "Summary"
                 /\ Len(cacheEntries) = piCacheLimit
                 /\ t = Head(cacheEntries)
                 /\ cacheData[HexEncodeToString(reply'.token)] = NoData
                 /\ cacheEntries' =
                       Append(Tail(cacheEntries), HexEncodeToString(reply'.token))
      ]_vars

\* C33 witness: the cache is full and holds the vote status of proposal 1,
\* cached while the proposal was active, and the last command is a
\* SetBillingStatus that closed proposal 1.
C33_Witness ==
    /\ Len(cacheEntries) = piCacheLimit
    /\ cacheData["01"] = CacheDataOf(Nil, VoteStatusApproved)
    /\ reply.op = "SetBillingStatus"
    /\ reply.token = 1
    /\ reply.err = NoErr
    /\ Len(tstore[1]) = 1
    /\ Persisted(1)[1].Status = BillingStatusClosed

\* C34: every billing status change that SetBillingStatus has persisted has
\* the status active, closed or completed.  So the history of a proposal
\* always decodes, proposalStatusApproved applied to it never gives its
\* "couldn't determine" error, and no Summary has returned that error.
C34_PersistedStatusesSettable ==
    /\ \A t \in DOMAIN tstore :
          /\ \A i \in 1..Len(tstore[t]) :
                Persisted(t)[i].Status \in {BillingStatusActive, BillingStatusClosed,
                                            BillingStatusCompleted}
          /\ p_billingStatusChanges(t, "none").err = NoErr
          /\ proposalStatusApproved(records[t].VoteMD,
                                    p_billingStatusChanges(t, "none").bscs).err = NoErr
          /\ proposalStatusApproved(NoVoteMD,
                                    p_billingStatusChanges(t, "none").bscs).err = NoErr
    /\ reply.op = "Summary" =>
          reply.err #
             InternalError("couldn't determine proposal status of an approved proposal")

\* C34 witness: proposal 1 was closed and then completed, which fills its
\* history, and the last command is a Summary that reports it completed.
C34_Witness ==
    /\ Len(tstore[1]) = billingStatusChangesMax
    /\ Persisted(1)[1].Status = BillingStatusClosed
    /\ Persisted(1)[2].Status = BillingStatusCompleted
    /\ reply.op = "Summary"
    /\ reply.token = 1
    /\ reply.err = NoErr
    /\ reply.val = PropStatusCompleted

\* C35: whatever the interleaving of the invocations, the order list and the
\* map of the cache describe the same set of tokens: a cached token is in
\* the list exactly once, a token that is not cached is not in the list,
\* and the list is no longer than the cache limit.
C35_ListMatchesMap ==
    /\ \A t \in HexTokens :
          Cardinality({i \in 1..Len(cacheEntries) : cacheEntries[i] = t}) =
             IF cacheData[t] # NoData THEN 1 ELSE 0
    /\ Len(cacheEntries) = Cardinality(CachedTokens)
    /\ Len(cacheEntries) <= piCacheLimit

\* C35 witness: two invocations missed on proposal 2 at the same time and
\* both wrote its status: the first write inserted the token, the second
\* found it, and the list holds it once.
C35_Witness ==
    /\ res = <<[kind |-> "insert", token |-> "02"],
               [kind |-> "overwrite", token |-> "02"]>>
    /\ cacheEntries = <<"02">>
    /\ cacheData["02"] = CacheDataOf(PropStatusRejected, Nil)

\* The number of commands that can run at the same time.
MaxConcurrent == Cardinality(Procs)

\* C36: the cap on the billing status changes of a proposal rests on the
\* serialization of the writes of a token.  Every change that is saved
\* passed the cap check on the history its command read, but a history
\* longer than the cap is reached exactly when the writes are not
\* serialized: two of its changes were then checked against the same
\* history, and the excess is at most one change for each further
\* concurrent command.
C36_CapNeedsSerialization ==
    \A t \in DOMAIN tstore :
        /\ Len(res.validated[t]) = Len(tstore[t])
        /\ \A i \in 1..Len(res.validated[t]) :
              res.validated[t][i] < billingStatusChangesMax
        /\ Len(tstore[t]) <= billingStatusChangesMax + MaxConcurrent - 1
        /\ Len(tstore[t]) > billingStatusChangesMax =>
              /\ ~res.serialized
              /\ \E i, j \in 1..Len(res.validated[t]) :
                    i < j /\ res.validated[t][i] = res.validated[t][j]

\* C36 witness: without serialization two commands both read a history one
\* change short of the cap, both passed the check and both saved: the history
\* is one change longer than the cap.
C36_Witness ==
    /\ ~res.serialized
    /\ Len(tstore[1]) = billingStatusChangesMax + 1
    /\ res.validated[1][billingStatusChangesMax] = billingStatusChangesMax - 1
    /\ res.validated[1][billingStatusChangesMax + 1] = billingStatusChangesMax - 1

====
